---- MODULE Spec2Model ----
(***************************************************************************)
(* Model of the in-memory telemetry store, app/ingestion/repository.py     *)
(* (class TelemetryStore), with the record types of app/core/models.py.    *)
(*                                                                         *)
(* Every access to the store's fields happens inside `with self._lock`,    *)
(* so one action is one locked section: the single-record operations are   *)
(* one action each, a batch add is one action per element (the lock is     *)
(* released between the elements), and the steps of different callers      *)
(* interleave freely.                                                      *)
(***************************************************************************)
EXTENDS Integers, Sequences, FiniteSets, TLC

\* ---------------------------------------------------------------------------
\* Bounds of the model
\* ---------------------------------------------------------------------------

\* configured caps of the store under test (TelemetryStore.__init__ arguments)
max_logs_per_service == 2

max_metrics_per_service == 2

max_traces == 2

\* retention horizon of the store under test, in clock ticks
retention_hours == 1

\* records constructed in one run, all families together
MaxAdds == 3

\* records constructed in one run of one family alone
MaxLogAdds == 4

MaxTraceAdds == 3

\* spans of a trace whose derived fields are looked at
MaxSpans == 3

Services == {"a", "b"}

\* the timestamps records carry, and the largest of them
Times == {0, 1}

MaxTime == CHOOSE t \in Times : \A u \in Times : u <= t

\* readings of the clock: the cutoff falls on each timestamp, so that a sweep
\* removes some, or all, of what is stored
Nows == {retention_hours + t : t \in Times}

\* one trace id more than the store keeps
TraceIdNames == <<"A", "B", "C", "D", "E", "F", "G", "H">>

TraceIds == {TraceIdNames[i] : i \in 1..(max_traces + 1)}

\* ---------------------------------------------------------------------------
\* Python values
\* ---------------------------------------------------------------------------

None == [none |-> TRUE]

\* a dict is a sequence of <<key, value>> pairs in insertion order
DictKeys(d) == [i \in 1..Len(d) |-> d[i][1]]

DictHas(d, k) == \E i \in 1..Len(d) : d[i][1] = k

DictIndex(d, k) == CHOOSE i \in 1..Len(d) : d[i][1] = k

\* d[k]
DictItem(d, k) == d[DictIndex(d, k)][2]

\* d.get(k, default)
DictGet(d, k, default) == IF DictHas(d, k) THEN DictItem(d, k) ELSE default

\* (d.setdefault(k, v): an existing key keeps its value)
DictSetDefault(d, k, v) == IF DictHas(d, k) THEN d ELSE Append(d, <<k, v>>)

\* (the item goes to the end of the dict, whether the key is there or not)
DictSetAppended(d, k, v) == Append(d, <<k, v>>)

\* (the dict holds this item alone afterwards)
DictSetAlone(d, k, v) == <<<<k, v>>>>

\* d[k] = v: an existing key keeps its position, a new key goes last
DictSet(d, k, v) ==
    IF DictHas(d, k)
    THEN [d EXCEPT ![DictIndex(d, k)] = <<k, v>>]
    ELSE Append(d, <<k, v>>)

\* del d[k]
DictDel(d, k) == SelectSeq(d, LAMBDA kv : kv[1] # k)

\* d.values()
DictValues(d) == [i \in 1..Len(d) |-> d[i][2]]

\* (the entry is not made)
IndexSkip(m, k, v) == m

\* an index (dict without use of its order) is a function on its key set
IndexSet(m, k, v) == [x \in (DOMAIN m) \cup {k} |-> IF x = k THEN v ELSE m[x]]

\* (the entry is left in place)
IndexKeep(m, k) == m

\* del m[k]
IndexDel(m, k) == [x \in (DOMAIN m) \ {k} |-> m[x]]

IndexGet(m, k) == IF k \in DOMAIN m THEN m[k] ELSE None

Range(s) == {s[i] : i \in DOMAIN s}

RECURSIVE SumLen(_)
SumLen(s) == IF s = <<>> THEN 0 ELSE Len(Head(s)) + SumLen(Tail(s))

\* ---------------------------------------------------------------------------
\* Record types (app/core/models.py)
\* ---------------------------------------------------------------------------

LogEntry(id, timestamp, service_name, level) ==
    [id |-> id, timestamp |-> timestamp, service_name |-> service_name,
     level |-> level]

MetricDataPoint(id, timestamp, service_name, metric_name) ==
    [id |-> id, timestamp |-> timestamp, service_name |-> service_name,
     metric_name |-> metric_name]

Span(service_name, start_time, end_time, parent_span_id, status, duration_ms) ==
    [service_name |-> service_name, start_time |-> start_time,
     end_time |-> end_time, parent_span_id |-> parent_span_id,
     status |-> status, duration_ms |-> duration_ms]

\* (the parentless spans, the last of the list first)
RootSpansLastFirst(spans) ==
    LET roots == SelectSeq(spans, LAMBDA s : s.parent_span_id = None)
    IN  [i \in DOMAIN roots |-> roots[Len(roots) + 1 - i]]

\* Trace.model_post_init: the derived fields
RootSpans(spans) == SelectSeq(spans, LAMBDA s : s.parent_span_id = None)

Trace(trace_id, spans) ==
    [trace_id |-> trace_id,
     spans |-> spans,
     root_service |-> IF RootSpans(spans) # <<>>
                      THEN Head(RootSpans(spans)).service_name ELSE None,
     total_duration_ms |-> IF RootSpans(spans) # <<>>
                           THEN Head(RootSpans(spans)).duration_ms ELSE 0,
     has_error |-> \E i \in DOMAIN spans : spans[i].status = "ERROR"]

\* ---------------------------------------------------------------------------
\* State
\* ---------------------------------------------------------------------------

VARIABLES
    logs,            \* _logs: dict service -> list of LogEntry
    metrics,         \* _metrics: dict service -> list of MetricDataPoint
    traces,          \* _traces: dict trace_id -> Trace
    logs_by_id,      \* _logs_by_id
    metrics_by_id,   \* _metrics_by_id
    services,        \* _services
    stats,           \* _stats
    created,         \* records constructed so far, per family; generate_id
                     \* hands the next number of the family to a log or metric
    batch,           \* the batch add in progress: what is left of its input
                     \* and the ids collected so far
    ret,             \* what the last call was and what it returned
    fate,            \* history: what became of each log, metric and trace id
    hist,            \* history: the logs appended per service, kept while no
                     \* cleanup_old_data or clear has run
    inserted_at,     \* history: for each stored trace id, the value of
                     \* traces_ingested when the id entered _traces
    lock,            \* _lock: the set of the threads that hold it (none or one)
    frames,          \* per thread, the call it is in: the statement it is at
                     \* and its local variables
    serial           \* history: the adds in the order they got the lock

logVars == <<logs, logs_by_id>>

metricVars == <<metrics, metrics_by_id>>

\* the part of the state that only calls run statement by statement use
threadVars == <<lock, frames, serial>>

vars == <<logs, metrics, traces, logs_by_id, metrics_by_id, services, stats,
          created, batch, ret, fate, hist, inserted_at, lock, frames, serial>>

Threads == {"t1", "t2"}

\* a thread that is in no call
Idle == [pc |-> "idle", op |-> "none"]

NoBatch == [op |-> "none"]

\* TelemetryStore.__init__
Init ==
    /\ logs = <<>>
    /\ metrics = <<>>
    /\ traces = <<>>
    /\ logs_by_id = <<>>
    /\ metrics_by_id = <<>>
    /\ services = {}
    /\ stats = [logs_ingested |-> 0, metrics_ingested |-> 0, traces_ingested |-> 0]
    /\ created = [logs |-> 0, metrics |-> 0, traces |-> 0]
    /\ batch = NoBatch
    /\ ret = [op |-> "__init__"]
    /\ fate = [logs |-> <<>>, metrics |-> <<>>,
               traces |-> [id \in TraceIds |-> "never"]]
    /\ hist = [clean |-> TRUE, appended |-> [s \in Services |-> <<>>]]
    /\ inserted_at = <<>>
    /\ lock = {}
    /\ frames = [t \in Threads |-> Idle]
    /\ serial = <<>>

\* ---------------------------------------------------------------------------
\* History bookkeeping
\* ---------------------------------------------------------------------------

\* the ids of the records in the lists of the dict d
StoredIds(d) ==
    UNION {{DictValues(d)[i][j].id : j \in DOMAIN DictValues(d)[i]} : i \in DOMAIN d}

\* the fates f with the ids of the set at set to what
Mark(f, at, what) == [i \in (DOMAIN f) \cup at |-> IF i \in at THEN what ELSE f[i]]

HistAppend(log) ==
    IF hist.clean
    THEN [hist EXCEPT !.appended[log.service_name] = Append(@, log.id)]
    ELSE hist

HistStop == [clean |-> FALSE, appended |-> [s \in Services |-> <<>>]]

\* ---------------------------------------------------------------------------
\* Log operations
\* ---------------------------------------------------------------------------

\* (the check one entry late)
OverLimitLate(n, limit) == n > limit + 1

\* `len(lst) > limit`
OverLimit(n, limit) == n > limit

\* (the first entry of the smallest timestamp goes)
PopEarliest(lst) ==
    LET i == CHOOSE k \in DOMAIN lst :
                /\ \A j \in DOMAIN lst : lst[k].timestamp <= lst[j].timestamp
                /\ \A j \in 1..(k - 1) : lst[k].timestamp < lst[j].timestamp
    IN  SubSeq(lst, 1, i - 1) \o SubSeq(lst, i + 1, Len(lst))

\* (lst.pop(): the newest entry goes)
PopLast(lst) == SubSeq(lst, 1, Len(lst) - 1)

\* lst.pop(0): the list that is left
Pop0(lst) == Tail(lst)

\* add_log: the store after the call
add_log(log) ==
    LET svc      == log.service_name
        lst      == Append(DictGet(logs, svc, <<>>), log)
        byid     == IndexSet(logs_by_id, log.id, log)
        over     == OverLimit(Len(lst), max_logs_per_service)
        removed  == lst[1]
    IN  /\ logs' = DictSet(logs, svc, IF over THEN Pop0(lst) ELSE lst)
        /\ logs_by_id' = IF over THEN IndexDel(byid, removed.id) ELSE byid
        /\ services' = services \cup {svc}
        /\ stats' = [stats EXCEPT !.logs_ingested = @ + 1]
        /\ fate' = [fate EXCEPT !.logs =
                        Mark(Mark(@, {log.id}, "stored"),
                             IF over THEN {removed.id} ELSE {}, "evicted")]
        /\ hist' = HistAppend(log)
        /\ UNCHANGED <<metricVars, traces, inserted_at>>

\* add_log: `del self._logs_by_id[removed.id]` finds no such key
add_log_raises(log) ==
    LET lst  == Append(DictGet(logs, log.service_name, <<>>), log)
    IN  /\ OverLimit(Len(lst), max_logs_per_service)
        /\ lst[1].id \notin (DOMAIN logs_by_id) \cup {log.id}

add_log_result(log) ==
    IF add_log_raises(log)
    THEN [op |-> "add_log", raised |-> "KeyError"]
    ELSE [op |-> "add_log", value |-> log.id]

\* (a log record that takes the id of the first record ever built)
NewLogReusedId(n, in) == LogEntry(1, in.timestamp, in.service_name, in.level)

\* what a caller hands over to have a LogEntry built: all but the id
NewLog(n, in) == LogEntry(n, in.timestamp, in.service_name, in.level)

\* a caller builds a LogEntry (generate_id gives it a fresh id) and adds it
AddLog(in) ==
    LET log == NewLog(created.logs + 1, in)
    IN  /\ created' = [created EXCEPT !.logs = @ + 1]
        /\ add_log(log)
        /\ ret' = add_log_result(log)
        /\ UNCHANGED batch
        /\ UNCHANGED threadVars

\* (the value of the latest element put in front)
CollectedInFront(result, id) == <<id>> \o result

\* the list a comprehension builds: the value of each element goes to its end
Collected(result, id) == Append(result, id)

\* add_logs_batch: `[self.add_log(log) for log in logs]`, one element per
\* step; the records were built (and got their ids) before the call; given
\* is the list that was passed, items what the comprehension has yet to visit
AddLogsBatch(ins) ==
    /\ batch = NoBatch
    /\ batch' = [op |-> "add_logs_batch",
                 given |-> [i \in DOMAIN ins |-> NewLog(created.logs + i, ins[i])],
                 items |-> [i \in DOMAIN ins |-> NewLog(created.logs + i, ins[i])],
                 result |-> <<>>]
    /\ created' = [created EXCEPT !.logs = @ + Len(ins)]
    /\ fate' = [fate EXCEPT !.logs =
                    Mark(@, {created.logs + i : i \in DOMAIN ins}, "new")]
    /\ ret' = [op |-> "add_logs_batch", at |-> 0]
    /\ UNCHANGED <<logVars, metricVars, traces, services, stats, hist, inserted_at>>
    /\ UNCHANGED threadVars

\* the comprehension's next element; an element that raises ends the call,
\* the last element returns the list of ids
AddLogsBatchStep ==
    /\ batch.op = "add_logs_batch"
    /\ LET log  == Head(batch.items)
           left == Tail(batch.items)
           got  == Collected(batch.result, log.id)
       IN  /\ add_log(log)
           /\ batch' = IF add_log_raises(log) \/ left = <<>>
                       THEN NoBatch
                       ELSE [batch EXCEPT !.items = left, !.result = got]
           /\ ret' = IF add_log_raises(log)
                     THEN [op |-> "add_logs_batch", raised |-> "KeyError"]
                     ELSE IF left = <<>>
                          THEN [op |-> "add_logs_batch", value |-> got]
                          ELSE [op |-> "add_logs_batch", at |-> Len(got)]
    /\ UNCHANGED created
    /\ UNCHANGED threadVars

\* get_log_by_id
get_log_by_id(log_id) == IndexGet(logs_by_id, log_id)

\* an Optional[List[str]] argument is None or a list that was passed
Given(lst) == [list |-> lst]

\* the truth value Python gives an optional list: None and [] are false
Truthy(opt) == opt # None /\ opt.list # <<>>

\* (the end of the window left out)
BeforeEnd(start, timestamp, end) == start <= timestamp /\ timestamp < end

\* `start <= log.timestamp <= end`
InWindow(start, timestamp, end) == start <= timestamp /\ timestamp <= end

\* sorted(results, key=lambda x: x.timestamp): a stable sort, here by insertion
\* behind the entries that are not later
RECURSIVE InsertByTimestamp(_, _)
InsertByTimestamp(sorted, x) ==
    IF sorted = <<>> THEN <<x>>
    ELSE IF Head(sorted).timestamp <= x.timestamp
         THEN <<Head(sorted)>> \o InsertByTimestamp(Tail(sorted), x)
         ELSE <<x>> \o sorted

RECURSIVE SortedByTimestamp(_)
SortedByTimestamp(results) ==
    IF results = <<>> THEN <<>>
    ELSE InsertByTimestamp(SortedByTimestamp(SubSeq(results, 1, Len(results) - 1)),
                           results[Len(results)])

\* the loops of get_logs_in_window over target_services and their lists
RECURSIVE LogsOf(_, _, _, _)
LogsOf(target_services, start, end, levels) ==
    IF target_services = <<>> THEN <<>>
    ELSE SelectSeq(DictGet(logs, Head(target_services), <<>>),
                   LAMBDA log : /\ InWindow(start, log.timestamp, end)
                                /\ ~(Truthy(levels) /\ log.level \notin Range(levels.list)))
         \o LogsOf(Tail(target_services), start, end, levels)

\* get_logs_in_window
get_logs_in_window(start, end, service_list, levels) ==
    LET target_services == IF Truthy(service_list) THEN service_list.list
                           ELSE DictKeys(logs)
    IN  SortedByTimestamp(LogsOf(target_services, start, end, levels))

\* a caller asks for the logs of a window
GetLogsInWindow(start, end, service_list, levels) ==
    /\ ret' = [op |-> "get_logs_in_window",
               args |-> [start |-> start, end |-> end, services |-> service_list,
                         levels |-> levels],
               value |-> get_logs_in_window(start, end, service_list, levels)]
    /\ UNCHANGED <<logVars, metricVars, traces, services, stats, created, batch,
                   fate, hist, inserted_at>>
    /\ UNCHANGED threadVars

\* (the levels the docstring names: "only error and fatal logs")
error_and_fatal == <<"ERROR", "FATAL">>

\* error_levels = ["ERROR", "FATAL", "CRITICAL"]
error_levels == <<"ERROR", "FATAL", "CRITICAL">>

\* get_error_logs_in_window
get_error_logs_in_window(start, end, service_list) ==
    get_logs_in_window(start, end, service_list, Given(error_levels))

\* a caller asks for the error logs of a window
GetErrorLogsInWindow(start, end, service_list) ==
    /\ ret' = [op |-> "get_error_logs_in_window",
               args |-> [start |-> start, end |-> end, services |-> service_list],
               value |-> get_error_logs_in_window(start, end, service_list)]
    /\ UNCHANGED <<logVars, metricVars, traces, services, stats, created, batch,
                   fate, hist, inserted_at>>
    /\ UNCHANGED threadVars

\* ---------------------------------------------------------------------------
\* Metric operations
\* ---------------------------------------------------------------------------

\* add_metric: the store after the call
add_metric(metric) ==
    LET svc      == metric.service_name
        lst      == Append(DictGet(metrics, svc, <<>>), metric)
        byid     == IndexSet(metrics_by_id, metric.id, metric)
        over     == OverLimit(Len(lst), max_metrics_per_service)
        removed  == lst[1]
    IN  /\ metrics' = DictSet(metrics, svc, IF over THEN Pop0(lst) ELSE lst)
        /\ metrics_by_id' = IF over THEN IndexDel(byid, removed.id) ELSE byid
        /\ services' = services \cup {svc}
        /\ stats' = [stats EXCEPT !.metrics_ingested = @ + 1]
        /\ fate' = [fate EXCEPT !.metrics =
                        Mark(Mark(@, {metric.id}, "stored"),
                             IF over THEN {removed.id} ELSE {}, "evicted")]
        /\ UNCHANGED <<logVars, traces, hist, inserted_at>>

\* add_metric: `del self._metrics_by_id[removed.id]` finds no such key
add_metric_raises(metric) ==
    LET lst  == Append(DictGet(metrics, metric.service_name, <<>>), metric)
    IN  /\ OverLimit(Len(lst), max_metrics_per_service)
        /\ lst[1].id \notin (DOMAIN metrics_by_id) \cup {metric.id}

add_metric_result(metric) ==
    IF add_metric_raises(metric)
    THEN [op |-> "add_metric", raised |-> "KeyError"]
    ELSE [op |-> "add_metric", value |-> metric.id]

NewMetric(n, in) ==
    MetricDataPoint(n, in.timestamp, in.service_name, in.metric_name)

\* a caller builds a MetricDataPoint (fresh id) and adds it
AddMetric(in) ==
    LET metric == NewMetric(created.metrics + 1, in)
    IN  /\ created' = [created EXCEPT !.metrics = @ + 1]
        /\ add_metric(metric)
        /\ ret' = add_metric_result(metric)
        /\ UNCHANGED batch
        /\ UNCHANGED threadVars

\* add_metrics_batch, as add_logs_batch
AddMetricsBatch(ins) ==
    /\ batch = NoBatch
    /\ batch' = [op |-> "add_metrics_batch",
                 given |-> [i \in DOMAIN ins |-> NewMetric(created.metrics + i, ins[i])],
                 items |-> [i \in DOMAIN ins |-> NewMetric(created.metrics + i, ins[i])],
                 result |-> <<>>]
    /\ created' = [created EXCEPT !.metrics = @ + Len(ins)]
    /\ fate' = [fate EXCEPT !.metrics =
                    Mark(@, {created.metrics + i : i \in DOMAIN ins}, "new")]
    /\ ret' = [op |-> "add_metrics_batch", at |-> 0]
    /\ UNCHANGED <<logVars, metricVars, traces, services, stats, hist, inserted_at>>
    /\ UNCHANGED threadVars

AddMetricsBatchStep ==
    /\ batch.op = "add_metrics_batch"
    /\ LET metric == Head(batch.items)
           left   == Tail(batch.items)
           got    == Collected(batch.result, metric.id)
       IN  /\ add_metric(metric)
           /\ batch' = IF add_metric_raises(metric) \/ left = <<>>
                       THEN NoBatch
                       ELSE [batch EXCEPT !.items = left, !.result = got]
           /\ ret' = IF add_metric_raises(metric)
                     THEN [op |-> "add_metrics_batch", raised |-> "KeyError"]
                     ELSE IF left = <<>>
                          THEN [op |-> "add_metrics_batch", value |-> got]
                          ELSE [op |-> "add_metrics_batch", at |-> Len(got)]
    /\ UNCHANGED created
    /\ UNCHANGED threadVars

\* (the lists are searched, not the index)
get_metric_by_id_in_lists(metric_id) ==
    IF metric_id \in StoredIds(metrics)
    THEN CHOOSE m \in UNION {Range(metrics[i][2]) : i \in DOMAIN metrics} :
             m.id = metric_id
    ELSE None

\* get_metric_by_id
get_metric_by_id(metric_id) == IndexGet(metrics_by_id, metric_id)

\* (the series of a service with the points of all its metric names)
get_metric_series_all_names(service_name, metric_name, start, end) ==
    SortedByTimestamp(
        SelectSeq(DictGet(metrics, service_name, <<>>),
                  LAMBDA metric : InWindow(start, metric.timestamp, end)))

\* get_metric_series
get_metric_series(service_name, metric_name, start, end) ==
    SortedByTimestamp(
        SelectSeq(DictGet(metrics, service_name, <<>>),
                  LAMBDA metric : /\ ~(metric.metric_name # metric_name)
                                  /\ InWindow(start, metric.timestamp, end)))

\* a caller asks for a metric series
GetMetricSeries(service_name, metric_name, start, end) ==
    /\ ret' = [op |-> "get_metric_series",
               args |-> [service_name |-> service_name, metric_name |-> metric_name,
                         start |-> start, end |-> end],
               value |-> get_metric_series(service_name, metric_name, start, end)]
    /\ UNCHANGED <<logVars, metricVars, traces, services, stats, created, batch,
                   fate, hist, inserted_at>>
    /\ UNCHANGED threadVars

\* ---------------------------------------------------------------------------
\* Trace operations
\* ---------------------------------------------------------------------------

\* (the last key)
LastKey(d) == d[Len(d)][1]

\* next(iter(d)): the first key in insertion order
FirstKey(d) == d[1][1]

\* (no span looked at)
NoSpanServices(trace) == {}

\* `for span in trace.spans: self._services.add(span.service_name)`: the
\* names that are added
SpanServices(trace) == {trace.spans[i].service_name : i \in DOMAIN trace.spans}

\* add_trace: the store after the call
add_trace(trace) ==
    LET id        == trace.trace_id
        put       == DictSet(traces, id, trace)
        over      == OverLimit(Len(put), max_traces)
        oldest_id == FirstKey(put)
        stamped   == IF DictHas(traces, id)
                     THEN inserted_at
                     ELSE IndexSet(inserted_at, id, stats.traces_ingested + 1)
    IN  /\ traces' = IF over THEN DictDel(put, oldest_id) ELSE put
        /\ stats' = [stats EXCEPT !.traces_ingested = @ + 1]
        /\ services' = services \cup SpanServices(trace)
        /\ fate' = [fate EXCEPT !.traces =
                        Mark(Mark(@, {id}, "stored"),
                             IF over THEN {oldest_id} ELSE {}, "evicted")]
        /\ inserted_at' = IF over THEN IndexDel(stamped, oldest_id) ELSE stamped
        /\ UNCHANGED <<logVars, metricVars, hist>>

\* a caller hands over a Trace it has built
AddTrace(trace) ==
    /\ created' = [created EXCEPT !.traces = @ + 1]
    /\ add_trace(trace)
    /\ ret' = [op |-> "add_trace", value |-> trace.trace_id]
    /\ UNCHANGED batch
    /\ UNCHANGED threadVars

\* add_traces_batch, as add_logs_batch
AddTracesBatch(ins) ==
    /\ batch = NoBatch
    /\ batch' = [op |-> "add_traces_batch", given |-> ins, items |-> ins,
                 result |-> <<>>]
    /\ created' = [created EXCEPT !.traces = @ + Len(ins)]
    /\ ret' = [op |-> "add_traces_batch", at |-> 0]
    /\ UNCHANGED <<logVars, metricVars, traces, services, stats, fate, hist,
                   inserted_at>>
    /\ UNCHANGED threadVars

AddTracesBatchStep ==
    /\ batch.op = "add_traces_batch"
    /\ LET trace == Head(batch.items)
           left  == Tail(batch.items)
           got   == Collected(batch.result, trace.trace_id)
       IN  /\ add_trace(trace)
           /\ batch' = IF left = <<>>
                       THEN NoBatch
                       ELSE [batch EXCEPT !.items = left, !.result = got]
           /\ ret' = IF left = <<>>
                     THEN [op |-> "add_traces_batch", value |-> got]
                     ELSE [op |-> "add_traces_batch", at |-> Len(got)]
    /\ UNCHANGED created
    /\ UNCHANGED threadVars

\* get_trace_by_id
get_trace_by_id(trace_id) == DictGet(traces, trace_id, None)

\* (no break: the trace is appended for every span that matches)
OncePerSpan(trace, hits) == [i \in DOMAIN hits |-> trace]

\* `results.append(trace); break`: what the loop over the spans of one trace
\* appends, hits being the spans that pass its tests
UpToBreak(trace, hits) == IF hits = <<>> THEN <<>> ELSE <<trace>>

\* the lists of a list, one after the other
RECURSIVE Flat(_)
Flat(lists) == IF lists = <<>> THEN <<>> ELSE Head(lists) \o Flat(Tail(lists))

\* the loop over self._traces.values(), hits(trace) being the matching spans
TracesHit(values, hits(_)) ==
    Flat([i \in DOMAIN values |-> UpToBreak(values[i], hits(values[i]))])

\* get_traces_for_service
get_traces_for_service(service_name, start, end) ==
    LET hits(trace) ==
            SelectSeq(trace.spans,
                      LAMBDA span : /\ span.service_name = service_name
                                    /\ InWindow(start, span.start_time, end))
    IN  TracesHit(DictValues(traces), hits)

\* a caller asks for the traces of a service
GetTracesForService(service_name, start, end) ==
    /\ ret' = [op |-> "get_traces_for_service",
               args |-> [service_name |-> service_name, start |-> start, end |-> end],
               value |-> get_traces_for_service(service_name, start, end)]
    /\ UNCHANGED <<logVars, metricVars, traces, services, stats, created, batch,
                   fate, hist, inserted_at>>
    /\ UNCHANGED threadVars

\* (the traces with a span in the window, with or without an error)
get_traces_in_window(start, end, service_list) ==
    LET hits(trace) ==
            SelectSeq(trace.spans,
                      LAMBDA span :
                          /\ ~(Truthy(service_list)
                                  /\ span.service_name \notin Range(service_list.list))
                          /\ InWindow(start, span.start_time, end))
    IN  TracesHit(DictValues(traces), hits)

\* get_error_traces_in_window
get_error_traces_in_window(start, end, service_list) ==
    LET hits(trace) ==
            IF ~trace.has_error THEN <<>>
            ELSE SelectSeq(trace.spans,
                           LAMBDA span :
                               /\ ~(Truthy(service_list)
                                       /\ span.service_name \notin Range(service_list.list))
                               /\ InWindow(start, span.start_time, end))
    IN  TracesHit(DictValues(traces), hits)

\* a caller asks for the error traces of a window
GetErrorTracesInWindow(start, end, service_list) ==
    /\ ret' = [op |-> "get_error_traces_in_window",
               args |-> [start |-> start, end |-> end, services |-> service_list],
               value |-> get_error_traces_in_window(start, end, service_list)]
    /\ UNCHANGED <<logVars, metricVars, traces, services, stats, created, batch,
                   fate, hist, inserted_at>>
    /\ UNCHANGED threadVars

\* ---------------------------------------------------------------------------
\* Maintenance operations
\* ---------------------------------------------------------------------------

\* (an entry at the cutoff is kept)
NotOlder(timestamp, cutoff) == timestamp >= cutoff

\* the condition of the comprehensions `[x for x in lst if x.timestamp > cutoff]`
Newer(timestamp, cutoff) == timestamp > cutoff

CleanList(lst, cutoff) == SelectSeq(lst, LAMBDA x : Newer(x.timestamp, cutoff))

\* (the first span)
FirstSpan(spans) == spans[1]

\* max(spans, key=lambda s: s.end_time): the first span of the largest end_time
LatestSpan(spans) ==
    spans[CHOOSE i \in DOMAIN spans :
            /\ \A j \in DOMAIN spans : spans[j].end_time <= spans[i].end_time
            /\ \A j \in 1..(i - 1) : spans[j].end_time < spans[i].end_time]

\* `if trace.spans: ... if latest_span.end_time < cutoff`
Expired(trace, cutoff) ==
    /\ trace.spans # <<>>
    /\ LatestSpan(trace.spans).end_time < cutoff

CleanDict(d, cutoff) == [i \in DOMAIN d |-> <<d[i][1], CleanList(d[i][2], cutoff)>>]

\* (the entries that stay are counted)
Kept(d, d2) == SumLen(DictValues(d2))

\* `removed[...] += original - len(...)` over the services
Removed(d, d2) == SumLen(DictValues(d)) - SumLen(DictValues(d2))

\* (the sweep also drops the names of the services it left without logs)
cleanup_old_data_pruning(cutoff) ==
    LET logs2       == CleanDict(logs, cutoff)
        metrics2    == CleanDict(metrics, cutoff)
        to_remove   == {DictKeys(traces)[i] : i \in
                          {j \in DOMAIN traces : Expired(traces[j][2], cutoff)}}
        traces2     == SelectSeq(traces, LAMBDA kv : kv[1] \notin to_remove)
    IN  /\ logs' = logs2
        /\ metrics' = metrics2
        /\ traces' = traces2
        /\ ret' = [op |-> "cleanup_old_data",
                   value |-> [logs |-> Removed(logs, logs2),
                              metrics |-> Removed(metrics, metrics2),
                              traces |-> Cardinality(to_remove)]]
        /\ fate' = [logs |-> Mark(fate.logs, StoredIds(logs) \ StoredIds(logs2), "swept"),
                    metrics |-> Mark(fate.metrics,
                                     StoredIds(metrics) \ StoredIds(metrics2), "swept"),
                    traces |-> Mark(fate.traces, to_remove, "swept")]
        /\ hist' = HistStop
        /\ inserted_at' = [id \in (DOMAIN inserted_at) \ to_remove |-> inserted_at[id]]
        /\ services' = services \ {logs[i][1] : i \in {j \in DOMAIN logs : logs2[j][2] = <<>>}}
        /\ UNCHANGED <<logs_by_id, metrics_by_id, stats, created, batch>>

\* cleanup_old_data: the locked section, run with the cutoff computed before
cleanup_old_data(cutoff) ==
    LET logs2       == CleanDict(logs, cutoff)
        metrics2    == CleanDict(metrics, cutoff)
        to_remove   == {DictKeys(traces)[i] : i \in
                          {j \in DOMAIN traces : Expired(traces[j][2], cutoff)}}
        traces2     == SelectSeq(traces, LAMBDA kv : kv[1] \notin to_remove)
    IN  /\ logs' = logs2
        /\ metrics' = metrics2
        /\ traces' = traces2
        /\ ret' = [op |-> "cleanup_old_data",
                   value |-> [logs |-> Removed(logs, logs2),
                              metrics |-> Removed(metrics, metrics2),
                              traces |-> Cardinality(to_remove)]]
        /\ fate' = [logs |-> Mark(fate.logs, StoredIds(logs) \ StoredIds(logs2), "swept"),
                    metrics |-> Mark(fate.metrics,
                                     StoredIds(metrics) \ StoredIds(metrics2), "swept"),
                    traces |-> Mark(fate.traces, to_remove, "swept")]
        /\ hist' = HistStop
        /\ inserted_at' = [id \in (DOMAIN inserted_at) \ to_remove |-> inserted_at[id]]
        /\ UNCHANGED <<logs_by_id, metrics_by_id, services, stats, created, batch>>

\* cleanup_old_data, called when the clock reads now
Cleanup(now) ==
    /\ cleanup_old_data(now - retention_hours)
    /\ UNCHANGED threadVars

\* get_stats
get_stats ==
    [logs_ingested |-> stats.logs_ingested,
     metrics_ingested |-> stats.metrics_ingested,
     traces_ingested |-> stats.traces_ingested,
     services_count |-> Cardinality(services),
     logs_stored |-> SumLen(DictValues(logs)),
     metrics_stored |-> SumLen(DictValues(metrics)),
     traces_stored |-> Len(traces)]

\* get_services
get_services == services

\* (the by-id indexes are left as they are)
ClearLists ==
    /\ logs' = <<>>
    /\ metrics' = <<>>
    /\ traces' = <<>>
    /\ services' = {}
    /\ ret' = [op |-> "clear"]
    /\ UNCHANGED <<logs_by_id, metrics_by_id, stats, created, batch, fate, hist,
                   inserted_at, threadVars>>

\* (the counters are reset with the data)
ClearAndReset ==
    /\ logs' = <<>>
    /\ metrics' = <<>>
    /\ traces' = <<>>
    /\ logs_by_id' = <<>>
    /\ metrics_by_id' = <<>>
    /\ services' = {}
    /\ stats' = [logs_ingested |-> 0, metrics_ingested |-> 0, traces_ingested |-> 0]
    /\ ret' = [op |-> "clear"]
    /\ UNCHANGED <<created, batch, fate, hist, inserted_at, threadVars>>

\* clear
Clear ==
    /\ logs' = <<>>
    /\ metrics' = <<>>
    /\ traces' = <<>>
    /\ logs_by_id' = <<>>
    /\ metrics_by_id' = <<>>
    /\ services' = {}
    /\ ret' = [op |-> "clear"]
    /\ fate' = [logs |-> Mark(fate.logs, StoredIds(logs), "cleared"),
                metrics |-> Mark(fate.metrics, StoredIds(metrics), "cleared"),
                traces |-> Mark(fate.traces, Range(DictKeys(traces)), "cleared")]
    /\ hist' = HistStop
    /\ inserted_at' = <<>>
    /\ UNCHANGED <<stats, created, batch>>
    /\ UNCHANGED threadVars

\* ---------------------------------------------------------------------------
\* The adds statement by statement, run by several threads
\* ---------------------------------------------------------------------------

\* (the lock is not taken)
CanEnterAlways(t) == TRUE

\* `with self._lock`: an RLock lets a thread in when no other thread holds it
CanEnter(t) == lock \subseteq {t}

At(t, op, pc) == frames[t].op = op /\ frames[t].pc = pc

Goto(t, pc) == [frames EXCEPT ![t].pc = pc]

\* the store and the histories that a statement of a call leaves alone
storeVars == <<logs, metrics, traces, logs_by_id, metrics_by_id, services, stats>>

ghostVars == <<created, batch, fate, hist, inserted_at>>

\* a thread calls add_log with a LogEntry built for it
CallAddLog(t, in) ==
    /\ frames[t] = Idle
    /\ frames' = [frames EXCEPT ![t] = [pc |-> "acquire", op |-> "add_log",
                                        rec |-> NewLog(created.logs + 1, in)]]
    /\ created' = [created EXCEPT !.logs = @ + 1]
    /\ UNCHANGED <<storeVars, batch, fate, hist, inserted_at, ret, lock, serial>>

\* a thread calls add_metric with a MetricDataPoint built for it
CallAddMetric(t, in) ==
    /\ frames[t] = Idle
    /\ frames' = [frames EXCEPT ![t] = [pc |-> "acquire", op |-> "add_metric",
                                        rec |-> NewMetric(created.metrics + 1, in)]]
    /\ created' = [created EXCEPT !.metrics = @ + 1]
    /\ UNCHANGED <<storeVars, batch, fate, hist, inserted_at, ret, lock, serial>>

\* `with self._lock:` of add_log, add_metric and add_trace
Acquire(t) ==
    /\ frames[t].pc = "acquire"
    /\ CanEnter(t)
    /\ lock' = lock \cup {t}
    /\ serial' = Append(serial, [op |-> frames[t].op, rec |-> frames[t].rec])
    /\ frames' = Goto(t, "store")
    /\ UNCHANGED <<storeVars, ghostVars, ret>>

\* self._logs[log.service_name].append(log)
add_log_append(t) ==
    /\ At(t, "add_log", "store")
    /\ LET log == frames[t].rec
       IN  logs' = DictSet(logs, log.service_name,
                           Append(DictGet(logs, log.service_name, <<>>), log))
    /\ frames' = Goto(t, "index")
    /\ UNCHANGED <<metrics, traces, logs_by_id, metrics_by_id, services, stats,
                   ghostVars, ret, lock, serial>>

\* self._logs_by_id[log.id] = log
add_log_index(t) ==
    /\ At(t, "add_log", "index")
    /\ logs_by_id' = IndexSet(logs_by_id, frames[t].rec.id, frames[t].rec)
    /\ frames' = Goto(t, "register")
    /\ UNCHANGED <<logs, metrics, traces, metrics_by_id, services, stats,
                   ghostVars, ret, lock, serial>>

\* self._services.add(log.service_name)
add_log_register(t) ==
    /\ At(t, "add_log", "register")
    /\ services' = services \cup {frames[t].rec.service_name}
    /\ frames' = Goto(t, "count")
    /\ UNCHANGED <<logs, metrics, traces, logs_by_id, metrics_by_id, stats,
                   ghostVars, ret, lock, serial>>

\* self._stats["logs_ingested"] += 1: the read
add_log_count(t) ==
    /\ At(t, "add_log", "count")
    /\ frames' = [frames EXCEPT ![t] =
                     [pc |-> "count_store", op |-> "add_log", rec |-> @.rec,
                      read |-> stats.logs_ingested]]
    /\ UNCHANGED <<storeVars, ghostVars, ret, lock, serial>>

\* self._stats["logs_ingested"] += 1: the write
add_log_count_store(t) ==
    /\ At(t, "add_log", "count_store")
    /\ stats' = [stats EXCEPT !.logs_ingested = frames[t].read + 1]
    /\ frames' = [frames EXCEPT ![t] =
                     [pc |-> "limit", op |-> "add_log", rec |-> @.rec]]
    /\ UNCHANGED <<logs, metrics, traces, logs_by_id, metrics_by_id, services,
                   ghostVars, ret, lock, serial>>

\* if len(...) > self._max_logs: removed = ....pop(0)
add_log_limit(t) ==
    /\ At(t, "add_log", "limit")
    /\ LET svc == frames[t].rec.service_name
           lst == DictItem(logs, svc)
       IN  IF OverLimit(Len(lst), max_logs_per_service)
           THEN /\ logs' = DictSet(logs, svc, Pop0(lst))
                /\ frames' = [frames EXCEPT ![t] =
                                 [pc |-> "unindex", op |-> "add_log",
                                  rec |-> @.rec, removed |-> lst[1]]]
           ELSE /\ logs' = logs
                /\ frames' = Goto(t, "return")
    /\ UNCHANGED <<metrics, traces, logs_by_id, metrics_by_id, services, stats,
                   ghostVars, ret, lock, serial>>

\* (the KeyError leaves the call with the lock still held)
add_log_unindex_held(t) ==
    /\ At(t, "add_log", "unindex")
    /\ LET id == frames[t].removed.id
       IN  IF id \in DOMAIN logs_by_id
           THEN /\ logs_by_id' = IndexDel(logs_by_id, id)
                /\ frames' = [frames EXCEPT ![t] =
                                 [pc |-> "return", op |-> "add_log", rec |-> @.rec]]
                /\ UNCHANGED <<ret, lock>>
           ELSE /\ logs_by_id' = logs_by_id
                /\ frames' = [frames EXCEPT ![t] = Idle]
                /\ ret' = [op |-> "add_log", raised |-> "KeyError"]
                /\ lock' = lock
    /\ UNCHANGED <<logs, metrics, traces, metrics_by_id, services, stats,
                   ghostVars, serial>>

\* del self._logs_by_id[removed.id]; a KeyError ends the call
add_log_unindex(t) ==
    /\ At(t, "add_log", "unindex")
    /\ LET id == frames[t].removed.id
       IN  IF id \in DOMAIN logs_by_id
           THEN /\ logs_by_id' = IndexDel(logs_by_id, id)
                /\ frames' = [frames EXCEPT ![t] =
                                 [pc |-> "return", op |-> "add_log", rec |-> @.rec]]
                /\ UNCHANGED <<ret, lock>>
           ELSE /\ logs_by_id' = logs_by_id
                /\ frames' = [frames EXCEPT ![t] = Idle]
                /\ ret' = [op |-> "add_log", raised |-> "KeyError"]
                /\ lock' = lock \ {t}
    /\ UNCHANGED <<logs, metrics, traces, metrics_by_id, services, stats,
                   ghostVars, serial>>

\* return log.id, and the lock is released
add_log_return(t) ==
    /\ At(t, "add_log", "return")
    /\ ret' = [op |-> "add_log", value |-> frames[t].rec.id]
    /\ lock' = lock \ {t}
    /\ frames' = [frames EXCEPT ![t] = Idle]
    /\ UNCHANGED <<storeVars, ghostVars, serial>>

\* self._metrics[metric.service_name].append(metric)
add_metric_append(t) ==
    /\ At(t, "add_metric", "store")
    /\ LET metric == frames[t].rec
       IN  metrics' = DictSet(metrics, metric.service_name,
                           Append(DictGet(metrics, metric.service_name, <<>>), metric))
    /\ frames' = Goto(t, "index")
    /\ UNCHANGED <<logs, traces, metrics_by_id, logs_by_id, services, stats,
                   ghostVars, ret, lock, serial>>

\* self._metrics_by_id[metric.id] = metric
add_metric_index(t) ==
    /\ At(t, "add_metric", "index")
    /\ metrics_by_id' = IndexSet(metrics_by_id, frames[t].rec.id, frames[t].rec)
    /\ frames' = Goto(t, "register")
    /\ UNCHANGED <<metrics, logs, traces, logs_by_id, services, stats,
                   ghostVars, ret, lock, serial>>

\* self._services.add(metric.service_name)
add_metric_register(t) ==
    /\ At(t, "add_metric", "register")
    /\ services' = services \cup {frames[t].rec.service_name}
    /\ frames' = Goto(t, "count")
    /\ UNCHANGED <<metrics, logs, traces, metrics_by_id, logs_by_id, stats,
                   ghostVars, ret, lock, serial>>

\* self._stats["metrics_ingested"] += 1: the read
add_metric_count(t) ==
    /\ At(t, "add_metric", "count")
    /\ frames' = [frames EXCEPT ![t] =
                     [pc |-> "count_store", op |-> "add_metric", rec |-> @.rec,
                      read |-> stats.metrics_ingested]]
    /\ UNCHANGED <<storeVars, ghostVars, ret, lock, serial>>

\* self._stats["metrics_ingested"] += 1: the write
add_metric_count_store(t) ==
    /\ At(t, "add_metric", "count_store")
    /\ stats' = [stats EXCEPT !.metrics_ingested = frames[t].read + 1]
    /\ frames' = [frames EXCEPT ![t] =
                     [pc |-> "limit", op |-> "add_metric", rec |-> @.rec]]
    /\ UNCHANGED <<metrics, logs, traces, metrics_by_id, logs_by_id, services,
                   ghostVars, ret, lock, serial>>

\* if len(...) > self._max_metrics: removed = ....pop(0)
add_metric_limit(t) ==
    /\ At(t, "add_metric", "limit")
    /\ LET svc == frames[t].rec.service_name
           lst == DictItem(metrics, svc)
       IN  IF OverLimit(Len(lst), max_metrics_per_service)
           THEN /\ metrics' = DictSet(metrics, svc, Pop0(lst))
                /\ frames' = [frames EXCEPT ![t] =
                                 [pc |-> "unindex", op |-> "add_metric",
                                  rec |-> @.rec, removed |-> lst[1]]]
           ELSE /\ metrics' = metrics
                /\ frames' = Goto(t, "return")
    /\ UNCHANGED <<logs, traces, metrics_by_id, logs_by_id, services, stats,
                   ghostVars, ret, lock, serial>>

\* del self._metrics_by_id[removed.id]; a KeyError ends the call
add_metric_unindex(t) ==
    /\ At(t, "add_metric", "unindex")
    /\ LET id == frames[t].removed.id
       IN  IF id \in DOMAIN metrics_by_id
           THEN /\ metrics_by_id' = IndexDel(metrics_by_id, id)
                /\ frames' = [frames EXCEPT ![t] =
                                 [pc |-> "return", op |-> "add_metric", rec |-> @.rec]]
                /\ UNCHANGED <<ret, lock>>
           ELSE /\ metrics_by_id' = metrics_by_id
                /\ frames' = [frames EXCEPT ![t] = Idle]
                /\ ret' = [op |-> "add_metric", raised |-> "KeyError"]
                /\ lock' = lock \ {t}
    /\ UNCHANGED <<metrics, logs, traces, logs_by_id, services, stats,
                   ghostVars, serial>>

\* return metric.id, and the lock is released
add_metric_return(t) ==
    /\ At(t, "add_metric", "return")
    /\ ret' = [op |-> "add_metric", value |-> frames[t].rec.id]
    /\ lock' = lock \ {t}
    /\ frames' = [frames EXCEPT ![t] = Idle]
    /\ UNCHANGED <<storeVars, ghostVars, serial>>

\* a thread calls add_trace with a Trace built for it
CallAddTrace(t, trace) ==
    /\ frames[t] = Idle
    /\ frames' = [frames EXCEPT ![t] = [pc |-> "acquire", op |-> "add_trace",
                                        rec |-> trace]]
    /\ created' = [created EXCEPT !.traces = @ + 1]
    /\ UNCHANGED <<storeVars, batch, fate, hist, inserted_at, ret, lock, serial>>

\* self._traces[trace.trace_id] = trace
add_trace_put(t) ==
    /\ At(t, "add_trace", "store")
    /\ traces' = DictSet(traces, frames[t].rec.trace_id, frames[t].rec)
    /\ frames' = Goto(t, "count")
    /\ UNCHANGED <<logs, metrics, logs_by_id, metrics_by_id, services, stats,
                   ghostVars, ret, lock, serial>>

\* self._stats["traces_ingested"] += 1: the read
add_trace_count(t) ==
    /\ At(t, "add_trace", "count")
    /\ frames' = [frames EXCEPT ![t] =
                     [pc |-> "count_store", op |-> "add_trace", rec |-> @.rec,
                      read |-> stats.traces_ingested]]
    /\ UNCHANGED <<storeVars, ghostVars, ret, lock, serial>>

\* self._stats["traces_ingested"] += 1: the write
add_trace_count_store(t) ==
    /\ At(t, "add_trace", "count_store")
    /\ stats' = [stats EXCEPT !.traces_ingested = frames[t].read + 1]
    /\ frames' = [frames EXCEPT ![t] =
                     [pc |-> "register", op |-> "add_trace", rec |-> @.rec,
                      i |-> 1]]
    /\ UNCHANGED <<logs, metrics, traces, logs_by_id, metrics_by_id, services,
                   ghostVars, ret, lock, serial>>

\* for span in trace.spans: self._services.add(span.service_name)
add_trace_register(t) ==
    /\ At(t, "add_trace", "register")
    /\ LET spans == frames[t].rec.spans
           i     == frames[t].i
       IN  IF i <= Len(spans)
           THEN /\ services' = services \cup {spans[i].service_name}
                /\ frames' = [frames EXCEPT ![t].i = i + 1]
           ELSE /\ services' = services
                /\ frames' = [frames EXCEPT ![t] =
                                 [pc |-> "limit", op |-> "add_trace", rec |-> @.rec]]
    /\ UNCHANGED <<logs, metrics, traces, logs_by_id, metrics_by_id, stats,
                   ghostVars, ret, lock, serial>>

\* if len(self._traces) > self._max_traces: del self._traces[next(iter(...))]
add_trace_limit(t) ==
    /\ At(t, "add_trace", "limit")
    /\ traces' = IF OverLimit(Len(traces), max_traces)
                 THEN DictDel(traces, FirstKey(traces)) ELSE traces
    /\ frames' = Goto(t, "return")
    /\ UNCHANGED <<logs, metrics, logs_by_id, metrics_by_id, services, stats,
                   ghostVars, ret, lock, serial>>

\* return trace.trace_id, and the lock is released
add_trace_return(t) ==
    /\ At(t, "add_trace", "return")
    /\ ret' = [op |-> "add_trace", value |-> frames[t].rec.trace_id]
    /\ lock' = lock \ {t}
    /\ frames' = [frames EXCEPT ![t] = Idle]
    /\ UNCHANGED <<storeVars, ghostVars, serial>>

\* a caller that only reads
\* a thread calls cleanup_old_data when the clock reads now: the cutoff is
\* computed before the lock is asked for
CallCleanup(t, now) ==
    /\ frames[t] = Idle
    /\ frames' = [frames EXCEPT ![t] = [pc |-> "sweep", op |-> "cleanup_old_data",
                                        cutoff |-> now - retention_hours]]
    /\ UNCHANGED <<storeVars, ghostVars, ret, lock, serial>>

\* the `with self._lock:` block of cleanup_old_data and the return
cleanup_sweep(t) ==
    /\ At(t, "cleanup_old_data", "sweep")
    /\ CanEnter(t)
    /\ cleanup_old_data(frames[t].cutoff)
    /\ frames' = [frames EXCEPT ![t] = Idle]
    /\ UNCHANGED <<lock, serial>>

Reader == "reader"

\* get_stats, called by the reader: `with self._lock:` and the reads
GetStats ==
    /\ CanEnter(Reader)
    /\ ret' = [op |-> "get_stats", value |-> get_stats]
    /\ UNCHANGED <<storeVars, ghostVars, threadVars>>

\* ---------------------------------------------------------------------------
\* The store with all three families in use
\* ---------------------------------------------------------------------------

Made == created.logs + created.metrics + created.traces

LogInputs == [timestamp : Times, service_name : Services, level : {"INFO"}]

MetricInputs == [timestamp : Times, service_name : Services, metric_name : {"cpu"}]

\* a span that starts and ends at t
SpanAt(s, t) == Span(s, t, t, None, "OK", 0)

TraceInputs ==
    {Trace(id, <<SpanAt("b", 0)>>) : id \in TraceIds} \cup {Trace("A", <<>>)}

\* the batches: a late record followed by an early one
LogBatches ==
    {<<x, y>> : x \in {in \in LogInputs : in.timestamp = MaxTime /\ in.service_name = "a"},
                y \in {in \in LogInputs : in.timestamp = 0}}

MetricBatches ==
    {<<x, y>> : x \in {in \in MetricInputs : in.timestamp = MaxTime /\ in.service_name = "a"},
                y \in {in \in MetricInputs : in.timestamp = 0}}

TraceBatches ==
    {<<x, y>> : x \in {t \in TraceInputs : t.spans = <<>> /\ t.trace_id = "A"},
                y \in {t \in TraceInputs : t.spans # <<>> /\ t.trace_id \in {"A", "B"}}}

Next ==
    \/ \E in \in LogInputs : Made < MaxAdds /\ AddLog(in)
    \/ \E in \in MetricInputs : Made < MaxAdds /\ AddMetric(in)
    \/ \E trace \in TraceInputs : Made < MaxAdds /\ AddTrace(trace)
    \/ \E ins \in LogBatches : Made + Len(ins) <= MaxAdds /\ AddLogsBatch(ins)
    \/ AddLogsBatchStep
    \/ \E ins \in MetricBatches : Made + Len(ins) <= MaxAdds /\ AddMetricsBatch(ins)
    \/ AddMetricsBatchStep
    \/ \E ins \in TraceBatches : Made + Len(ins) <= MaxAdds /\ AddTracesBatch(ins)
    \/ AddTracesBatchStep
    \/ \E now \in Nows : Cleanup(now)
    \/ Clear

Spec == Init /\ [][Next]_vars

\* ---------------------------------------------------------------------------
\* The store with one family in use
\* ---------------------------------------------------------------------------

NextLogs ==
    \/ \E in \in LogInputs : created.logs < MaxLogAdds /\ AddLog(in)
    \/ \E ins \in LogBatches :
          created.logs + Len(ins) <= MaxLogAdds /\ AddLogsBatch(ins)
    \/ AddLogsBatchStep
    \/ \E now \in Nows : Cleanup(now)
    \/ Clear

SpecLogs == Init /\ [][NextLogs]_vars

\* logs and metrics, no traces
NextSweep ==
    \/ \E in \in LogInputs :
          created.logs + created.metrics < MaxAdds /\ AddLog(in)
    \/ \E in \in MetricInputs :
          created.logs + created.metrics < MaxAdds /\ AddMetric(in)
    \/ \E ins \in LogBatches :
          created.logs + created.metrics + Len(ins) <= MaxAdds /\ AddLogsBatch(ins)
    \/ AddLogsBatchStep
    \/ \E ins \in MetricBatches :
          created.logs + created.metrics + Len(ins) <= MaxAdds
             /\ AddMetricsBatch(ins)
    \/ AddMetricsBatchStep
    \/ \E now \in Nows : Cleanup(now)
    \/ Clear

SpecSweep == Init /\ [][NextSweep]_vars

\* traces of no, one and two spans, the later span first or last
SpanLists ==
    {<<>>, <<SpanAt("a", 0)>>,
     <<SpanAt("a", 0), SpanAt("b", MaxTime)>>,
     <<SpanAt("b", MaxTime), SpanAt("a", 0)>>}

SpanTraces == {Trace(id, spans) : id \in TraceIds, spans \in SpanLists}

SpanTraceBatches ==
    {<<x, y>> : x \in {t \in SpanTraces : t.spans = <<>> /\ t.trace_id = "A"},
                y \in {t \in SpanTraces : Len(t.spans) = 1 /\ t.trace_id \in {"A", "B"}}}

\* the clock of the trace runs also reads past every end time
LateNows == Nows \cup {retention_hours + MaxTime + 1}

NextTraces ==
    \/ \E trace \in SpanTraces : created.traces < MaxTraceAdds /\ AddTrace(trace)
    \/ \E ins \in SpanTraceBatches :
          created.traces + Len(ins) <= MaxTraceAdds /\ AddTracesBatch(ins)
    \/ AddTracesBatchStep
    \/ \E now \in LateNows : Cleanup(now)
    \/ Clear

SpecTraces == Init /\ [][NextTraces]_vars

\* ---------------------------------------------------------------------------
\* Properties
\* ---------------------------------------------------------------------------

Min(a, b) == IF a <= b THEN a ELSE b

IdsOf(lst) == [i \in DOMAIN lst |-> lst[i].id]

LastN(s, k) == SubSeq(s, Len(s) - k + 1, Len(s))

\* C1: while only add_log has run on the store, the log list of every service
\* holds min(number of logs appended for it, max_logs_per_service) entries, and
\* they are the most recently appended logs of the service in append order.
CapacityInvariant ==
    hist.clean =>
        \A s \in Services :
            LET stored == DictGet(logs, s, <<>>)
                n      == Len(hist.appended[s])
                k      == Min(n, max_logs_per_service)
            IN  /\ Len(stored) = k
                /\ IdsOf(stored) = LastN(hist.appended[s], k)

\* two logs more than the cap were appended for one service
CapacityWitness ==
    /\ hist.clean
    /\ \E s \in Services :
          /\ Len(hist.appended[s]) = max_logs_per_service + 2
          /\ Len(DictGet(logs, s, <<>>)) = max_logs_per_service

\* C2: no service's log list is longer than max_logs_per_service and no
\* service's metric list is longer than max_metrics_per_service, whatever the
\* interleaving of adds, batch adds, cleanup_old_data and clear.
PerServiceCaps ==
    /\ \A i \in DOMAIN logs : Len(logs[i][2]) <= max_logs_per_service
    /\ \A i \in DOMAIN metrics : Len(metrics[i][2]) <= max_metrics_per_service

\* a batch add has just evicted from a full list
PerServiceCapsWitness ==
    /\ ret.op \in {"add_logs_batch", "add_metrics_batch"}
    /\ \/ /\ \E i \in DOMAIN logs : Len(logs[i][2]) = max_logs_per_service
          /\ \E id \in DOMAIN fate.logs : fate.logs[id] = "evicted"
       \/ /\ \E i \in DOMAIN metrics : Len(metrics[i][2]) = max_metrics_per_service
          /\ \E id \in DOMAIN fate.metrics : fate.metrics[id] = "evicted"

\* C3: the number of stored traces never exceeds max_traces, over all services
\* together, whatever the sequence of add_trace, add_traces_batch (re-ingestion
\* included), cleanup_old_data and clear.
TraceCap == Len(traces) <= max_traces

\* the store is full of traces that carry spans of two services, and a trace
\* was evicted
TraceCapWitness ==
    /\ Len(traces) = max_traces
    /\ \E id \in TraceIds : fate.traces[id] = "evicted"
    /\ Cardinality(UNION {{traces[i][2].spans[j].service_name :
                              j \in DOMAIN traces[i][2].spans} : i \in DOMAIN traces}) = 2

\* the step is a call of add_trace, and the id of the trace it stores
TraceAddStep == stats'.traces_ingested = stats.traces_ingested + 1

AddedTraceId ==
    IF ret'.op = "add_trace" THEN ret'.value ELSE Head(batch.items).trace_id

\* the stored trace id that entered the store first
EarliestInserted ==
    CHOOSE id \in DOMAIN inserted_at :
        \A other \in DOMAIN inserted_at : inserted_at[id] <= inserted_at[other]

\* C4: when add_trace of an id that is not stored finds the store full, exactly
\* one trace goes, the one whose id entered the store earliest among the stored
\* ones, and the trace just added stays.
EvictionInsertionOrdered ==
    [][(/\ TraceAddStep
        /\ ~DictHas(traces, AddedTraceId)
        /\ Len(traces) = max_traces)
       => /\ Range(DictKeys(traces')) =
                (Range(DictKeys(traces)) \ {EarliestInserted}) \cup {AddedTraceId}
          /\ Len(traces') = max_traces]_vars

\* the first max_traces + 1 ids were added in order, and the first is gone
EvictionWitness ==
    /\ stats.traces_ingested = max_traces + 1
    /\ DictKeys(traces) = [i \in 1..max_traces |-> TraceIdNames[i + 1]]
    /\ fate.traces[TraceIdNames[1]] = "evicted"

\* C5: the ids in the log by-id index are exactly the ids of the logs in the
\* per-service log lists, and likewise for the metrics.
IndexConsistent ==
    /\ DOMAIN logs_by_id = StoredIds(logs)
    /\ DOMAIN metrics_by_id = StoredIds(metrics)

\* C6: a log or metric that cleanup_old_data removed from its list is not found
\* by get_log_by_id / get_metric_by_id.
SweptNotFound ==
    /\ \A id \in DOMAIN fate.logs :
          fate.logs[id] = "swept" => get_log_by_id(id) = None
    /\ \A id \in DOMAIN fate.metrics :
          fate.metrics[id] = "swept" => get_metric_by_id(id) = None

\* C7: the three lookups return None for an id that was never added and for the
\* id of a record that capacity eviction or clear removed.
GoneNotFound ==
    /\ \A id \in 1..(created.logs + 1) :
          (id \notin DOMAIN fate.logs \/ fate.logs[id] \in {"new", "evicted", "cleared"})
             => get_log_by_id(id) = None
    /\ \A id \in 1..(created.metrics + 1) :
          (id \notin DOMAIN fate.metrics
              \/ fate.metrics[id] \in {"new", "evicted", "cleared"})
             => get_metric_by_id(id) = None
    /\ \A id \in TraceIds :
          fate.traces[id] \in {"never", "evicted", "cleared"}
             => get_trace_by_id(id) = None

\* one log was evicted, and clear removed another
GoneWitness ==
    /\ ret.op = "clear"
    /\ \E id \in DOMAIN fate.logs : fate.logs[id] = "evicted"
    /\ \E id \in DOMAIN fate.logs : fate.logs[id] = "cleared"

\* a is b with some entries left out
RECURSIVE IsSubSeq(_, _)
IsSubSeq(a, b) ==
    IF a = <<>> THEN TRUE
    ELSE IF b = <<>> THEN FALSE
    ELSE IF Head(a) = Head(b) THEN IsSubSeq(Tail(a), Tail(b))
    ELSE IsSubSeq(a, Tail(b))

\* every list of d2 is the list of d under the same key, less exactly the
\* entries with a timestamp at or before the cutoff
SweptTo(d, d2, cutoff) ==
    /\ DictKeys(d2) = DictKeys(d)
    /\ \A i \in DOMAIN d :
          LET old  == d[i][2]
              kept == d2[i][2]
          IN  /\ \A j \in DOMAIN kept : kept[j].timestamp > cutoff
              /\ \A j \in DOMAIN old :
                    old[j].timestamp > cutoff => \E k \in DOMAIN kept : kept[k] = old[j]
              /\ IsSubSeq(kept, old)

\* C8: cleanup_old_data with cutoff = now - retention leaves of every service's
\* log list and metric list exactly the entries with timestamp > cutoff, in
\* their order.
SweepExact ==
    [][\A now \in Nows :
          (ret'.op = "cleanup_old_data" /\ Cleanup(now)) =>
              /\ SweptTo(logs, logs', now - retention_hours)
              /\ SweptTo(metrics, metrics', now - retention_hours)]_vars

\* a sweep removed a log and a metric and kept a log
SweepWitness ==
    /\ ret.op = "cleanup_old_data"
    /\ ret.value.logs >= 1
    /\ ret.value.metrics >= 1
    /\ \E i \in DOMAIN logs : logs[i][2] # <<>>

\* C9: cleanup_old_data removes a stored trace exactly when the trace has a
\* span and all its spans end before the cutoff (the largest end time is before
\* it); the traces that stay are unchanged.
TraceSweepRule ==
    [][\A now \in LateNows :
          (ret'.op = "cleanup_old_data" /\ Cleanup(now)) =>
              \A i \in DOMAIN traces :
                  LET id    == traces[i][1]
                      spans == traces[i][2].spans
                  IN  IF /\ spans # <<>>
                         /\ \A j \in DOMAIN spans :
                               spans[j].end_time < now - retention_hours
                      THEN ~DictHas(traces', id)
                      ELSE DictGet(traces', id, None) = traces[i][2]]_vars

\* a sweep removed a trace and kept one of two spans of which one had ended
\* before the cutoff
TraceSweepWitness ==
    /\ ret.op = "cleanup_old_data"
    /\ ret.value.traces = 1
    /\ \E i \in DOMAIN traces :
          /\ Len(traces[i][2].spans) = 2
          /\ \E j \in 1..2 : traces[i][2].spans[j].end_time = 0

\* ---------------------------------------------------------------------------
\* Window queries over the logs
\* ---------------------------------------------------------------------------

\* timestamps on, inside and one unit outside the bounds of the windows asked for
WindowLogInputs ==
    {[timestamp |-> 0, service_name |-> "a", level |-> "INFO"],
     [timestamp |-> 1, service_name |-> "a", level |-> "INFO"],
     [timestamp |-> 1, service_name |-> "a", level |-> "ERROR"],
     [timestamp |-> 2, service_name |-> "a", level |-> "FATAL"],
     [timestamp |-> 2, service_name |-> "b", level |-> "INFO"],
     [timestamp |-> 1, service_name |-> "b", level |-> "ERROR"]}

Windows == {<<1, 1>>, <<0, 1>>, <<1, 2>>}

ServiceLists == {None, Given(<<>>), Given(<<"a">>), Given(<<"b", "a">>)}

LevelLists ==
    {None, Given(<<>>), Given(<<"ERROR", "FATAL", "CRITICAL">>)}

NextWindow ==
    \/ \E in \in WindowLogInputs : created.logs < MaxAdds /\ AddLog(in)
    \/ \E w \in Windows, svcs \in ServiceLists, lvls \in LevelLists :
          GetLogsInWindow(w[1], w[2], svcs, lvls)

SpecWindow == Init /\ [][NextWindow]_vars

\* all stored logs
AllLogs == UNION {Range(logs[i][2]) : i \in DOMAIN logs}

\* C10: get_logs_in_window returns exactly the stored logs of the requested
\* services (of all services when none is requested, by None or by an empty
\* list) with start <= timestamp <= end and, when a non-empty list of levels is
\* given, a level among them, each of them once; the result is non-decreasing
\* by timestamp.
WindowExact ==
    ret.op = "get_logs_in_window" =>
        LET a == ret.args
            asked == IF a.services = None \/ a.services = Given(<<>>)
                     THEN Services ELSE Range(a.services.list)
            filtered == a.levels # None /\ a.levels # Given(<<>>)
        IN  /\ Range(ret.value) =
                  {log \in AllLogs :
                      /\ log.service_name \in asked
                      /\ a.start <= log.timestamp
                      /\ log.timestamp <= a.end
                      /\ filtered => log.level \in Range(a.levels.list)}
            /\ Len(ret.value) = Cardinality(Range(ret.value))
            /\ \A i \in 1..(Len(ret.value) - 1) :
                  ret.value[i].timestamp <= ret.value[i + 1].timestamp

\* the window is one instant: the log at it is returned, the stored logs one
\* unit before and one unit after are not
WindowWitness ==
    /\ ret.op = "get_logs_in_window"
    /\ ret.args.start = 1
    /\ ret.args.end = 1
    /\ Len(ret.value) = 1
    /\ {log.timestamp : log \in AllLogs} = {0, 1, 2}

\* C11: two logs of equal timestamp in a get_logs_in_window result stand in the
\* order in which they were inserted into the store (ids are handed out in
\* insertion order here), whether of the same service or of different ones.
WindowStable ==
    ret.op = "get_logs_in_window" =>
        \A i, j \in DOMAIN ret.value :
            (i < j /\ ret.value[i].timestamp = ret.value[j].timestamp)
                => ret.value[i].id < ret.value[j].id

\* ---------------------------------------------------------------------------
\* Concurrent callers
\* ---------------------------------------------------------------------------

ThreadLogInputs == {[timestamp |-> 0, service_name |-> "a", level |-> "INFO"]}

ThreadMetricInputs == {[timestamp |-> 0, service_name |-> "a", metric_name |-> "cpu"]}

ThreadTraceInputs == {Trace(id, <<SpanAt("b", 0)>>) : id \in TraceIds}

\* two threads add records of the three families while a reader asks for the
\* statistics
NextThreads ==
    \/ \E t \in Threads, in \in ThreadLogInputs :
          Made < MaxLogAdds /\ CallAddLog(t, in)
    \/ \E t \in Threads, in \in ThreadMetricInputs :
          Made < MaxLogAdds /\ CallAddMetric(t, in)
    \/ \E t \in Threads, trace \in ThreadTraceInputs :
          Made < MaxLogAdds /\ CallAddTrace(t, trace)
    \/ \E t \in Threads : Acquire(t)
    \/ \E t \in Threads : add_log_append(t)
    \/ \E t \in Threads : add_log_index(t)
    \/ \E t \in Threads : add_log_register(t)
    \/ \E t \in Threads : add_log_count(t)
    \/ \E t \in Threads : add_log_count_store(t)
    \/ \E t \in Threads : add_log_limit(t)
    \/ \E t \in Threads : add_log_unindex(t)
    \/ \E t \in Threads : add_log_return(t)
    \/ \E t \in Threads : add_metric_append(t)
    \/ \E t \in Threads : add_metric_index(t)
    \/ \E t \in Threads : add_metric_register(t)
    \/ \E t \in Threads : add_metric_count(t)
    \/ \E t \in Threads : add_metric_count_store(t)
    \/ \E t \in Threads : add_metric_limit(t)
    \/ \E t \in Threads : add_metric_unindex(t)
    \/ \E t \in Threads : add_metric_return(t)
    \/ \E t \in Threads : add_trace_put(t)
    \/ \E t \in Threads : add_trace_count(t)
    \/ \E t \in Threads : add_trace_count_store(t)
    \/ \E t \in Threads : add_trace_register(t)
    \/ \E t \in Threads : add_trace_limit(t)
    \/ \E t \in Threads : add_trace_return(t)
    \/ GetStats

SpecThreads == Init /\ [][NextThreads]_vars

\* the adds of one kind that have got the lock so far
Serialized(op) == SelectSeq(serial, LAMBDA c : c.op = op)

\* the service names of the stored records
StoredNames ==
    {DictKeys(logs)[i] : i \in {j \in DOMAIN logs : logs[j][2] # <<>>}}
        \cup {DictKeys(metrics)[i] : i \in {j \in DOMAIN metrics : metrics[j][2] # <<>>}}
        \cup UNION {{traces[i][2].spans[j].service_name : j \in DOMAIN traces[i][2].spans}
                       : i \in DOMAIN traces}

\* C12: whenever another caller can get the lock (and so look at the store),
\* every add is visible as a whole or not at all: the indexes hold exactly the
\* ids of the lists, the registry holds the service of every stored record, no
\* list or the trace dict is over its cap, the record of the add that got the
\* lock last is stored, and each ingested counter is the number of the adds of
\* its family that got the lock (no increment is lost).
AddsAtomic ==
    CanEnter(Reader) =>
        /\ DOMAIN logs_by_id = StoredIds(logs)
        /\ DOMAIN metrics_by_id = StoredIds(metrics)
        /\ StoredNames \subseteq services
        /\ \A i \in DOMAIN logs : Len(logs[i][2]) <= max_logs_per_service
        /\ \A i \in DOMAIN metrics : Len(metrics[i][2]) <= max_metrics_per_service
        /\ Len(traces) <= max_traces
        /\ stats.logs_ingested = Len(Serialized("add_log"))
        /\ stats.metrics_ingested = Len(Serialized("add_metric"))
        /\ stats.traces_ingested = Len(Serialized("add_trace"))
        /\ serial # <<>> =>
              LET last == serial[Len(serial)]
              IN  CASE last.op = "add_log" -> get_log_by_id(last.rec.id) = last.rec
                    [] last.op = "add_metric" ->
                          get_metric_by_id(last.rec.id) = last.rec
                    [] last.op = "add_trace" ->
                          get_trace_by_id(last.rec.trace_id) = last.rec

\* the reader got the statistics after an add that evicted, while a thread was
\* waiting for the lock
AddsAtomicWitness ==
    /\ ret.op = "get_stats"
    /\ ret.value.logs_ingested = max_logs_per_service + 1
    /\ ret.value.logs_stored = max_logs_per_service
    /\ \E t \in Threads : frames[t].pc = "acquire"

\* ---------------------------------------------------------------------------
\* Batch adds beside a reader
\* ---------------------------------------------------------------------------

NextBatch ==
    \/ \E ins \in LogBatches : Made + Len(ins) <= MaxLogAdds /\ AddLogsBatch(ins)
    \/ AddLogsBatchStep
    \/ \E ins \in MetricBatches :
          Made + Len(ins) <= MaxLogAdds /\ AddMetricsBatch(ins)
    \/ AddMetricsBatchStep
    \/ \E ins \in TraceBatches :
          Made + Len(ins) <= MaxLogAdds /\ AddTracesBatch(ins)
    \/ AddTracesBatchStep
    \/ GetStats

SpecBatch == Init /\ [][NextBatch]_vars

\* the ids of the records of the log or metric batch in progress
BatchIds == Range(batch.result) \cup {batch.items[i].id : i \in DOMAIN batch.items}

\* C13: a get_stats call that runs while a batch add is in progress sees all
\* the records of the batch added or none of them.
BatchWhole ==
    (ret.op = "get_stats" /\ batch.op \in {"add_logs_batch", "add_metrics_batch"}) =>
        LET f == IF batch.op = "add_logs_batch" THEN fate.logs ELSE fate.metrics
        IN  \/ \A id \in BatchIds : f[id] = "new"
            \/ \A id \in BatchIds : f[id] # "new"

\* the ids of the records of service s among the adds of one kind, in the
\* order in which the adds got the lock
SerializedIds(op, s) ==
    LET mine == SelectSeq(serial, LAMBDA c : c.op = op /\ c.rec.service_name = s)
    IN  [i \in DOMAIN mine |-> mine[i].rec.id]

\* C14: with concurrent producers, once the adds that got the lock are done,
\* the log (metric) list of every service holds the records in the order in
\* which their adds got the lock, all of them while they are no more than the
\* cap, the latest max_logs_per_service (max_metrics_per_service) otherwise.
AppendsSerialized ==
    CanEnter(Reader) =>
        \A s \in Services :
            /\ IdsOf(DictGet(logs, s, <<>>))
                  = LastN(SerializedIds("add_log", s),
                          Min(Len(SerializedIds("add_log", s)), max_logs_per_service))
            /\ IdsOf(DictGet(metrics, s, <<>>))
                  = LastN(SerializedIds("add_metric", s),
                          Min(Len(SerializedIds("add_metric", s)),
                              max_metrics_per_service))

\* two threads were in add_log for the same service at the same time, the
\* record built second got the lock first, and both are stored in that order
AppendsSerializedWitness ==
    /\ lock = {}
    /\ \A t \in Threads : frames[t] = Idle
    /\ IdsOf(DictGet(logs, "a", <<>>)) = <<2, 1>>

\* ---------------------------------------------------------------------------
\* One add, one eviction at most
\* ---------------------------------------------------------------------------

\* what one add may do to the list old of a service under the cap limit: leave
\* it, append to it while it is under the cap, or, when it is full, drop its
\* entry at index 0 and append
OneAddTo(old, new, limit) ==
    \/ new = old
    \/ /\ Len(old) < limit
       /\ Len(new) = Len(old) + 1
       /\ SubSeq(new, 1, Len(old)) = old
    \/ /\ Len(old) = limit
       /\ Len(new) = limit
       /\ SubSeq(new, 1, limit - 1) = Tail(old)

ChangedLists(d, e) == {s \in Services : DictGet(d, s, <<>>) # DictGet(e, s, <<>>)}

\* C15: a step that runs add_log (add_metric) changes the list of one service
\* only, and takes from it no entry when the list was under its cap and
\* exactly the entry at index 0 when it was full, whatever the timestamps.
SingleEviction ==
    [][/\ stats'.logs_ingested # stats.logs_ingested =>
             /\ Cardinality(ChangedLists(logs, logs')) = 1
             /\ \A s \in Services :
                   OneAddTo(DictGet(logs, s, <<>>), DictGet(logs', s, <<>>),
                            max_logs_per_service)
       /\ stats'.metrics_ingested # stats.metrics_ingested =>
             /\ Cardinality(ChangedLists(metrics, metrics')) = 1
             /\ \A s \in Services :
                   OneAddTo(DictGet(metrics, s, <<>>), DictGet(metrics', s, <<>>),
                            max_metrics_per_service)]_vars

\* an add has just evicted a log, and the list it left starts with a later
\* timestamp than it ends with: index 0 is not the entry of the least timestamp
SingleEvictionWitness ==
    /\ ret.op = "add_log"
    /\ \E id \in DOMAIN fate.logs : fate.logs[id] = "evicted"
    /\ \E s \in Services :
          LET lst == DictGet(logs, s, <<>>)
          IN  /\ Len(lst) = max_logs_per_service
              /\ lst[1].timestamp > lst[Len(lst)].timestamp
              /\ lst[Len(lst)].id = ret.value

\* ---------------------------------------------------------------------------
\* The ingested counters
\* ---------------------------------------------------------------------------

LogAddStep ==
    \/ ret'.op = "add_log" /\ \E in \in LogInputs : AddLog(in)
    \/ ret'.op = "add_logs_batch" /\ AddLogsBatchStep

MetricAddStep ==
    \/ ret'.op = "add_metric" /\ \E in \in MetricInputs : AddMetric(in)
    \/ ret'.op = "add_metrics_batch" /\ AddMetricsBatchStep

TraceAddedStep ==
    \/ ret'.op = "add_trace" /\ \E trace \in TraceInputs : AddTrace(trace)
    \/ ret'.op = "add_traces_batch" /\ AddTracesBatchStep

\* C16: no step makes an ingested counter smaller, and a step that adds one
\* record (alone or as an element of a batch) makes the counter of the
\* record's family larger by one and leaves the other two as they are.
CountersMonotonic ==
    [][/\ stats'.logs_ingested >= stats.logs_ingested
       /\ stats'.metrics_ingested >= stats.metrics_ingested
       /\ stats'.traces_ingested >= stats.traces_ingested
       /\ LogAddStep =>
             stats' = [stats EXCEPT !.logs_ingested = @ + 1]
       /\ MetricAddStep =>
             stats' = [stats EXCEPT !.metrics_ingested = @ + 1]
       /\ TraceAddedStep =>
             stats' = [stats EXCEPT !.traces_ingested = @ + 1]]_vars

\* clear has emptied a store in which an add had evicted a log, and the
\* counters still count all that was ingested
CountersWitness ==
    /\ ret.op = "clear"
    /\ stats.logs_ingested + stats.metrics_ingested + stats.traces_ingested = MaxAdds
    /\ \E id \in DOMAIN fate.logs : fate.logs[id] = "evicted"

\* ---------------------------------------------------------------------------
\* clear
\* ---------------------------------------------------------------------------

\* C17: a clear step leaves no log, no metric, no trace, no index entry and no
\* registered service, get_stats then reports no stored record and no service,
\* and the three ingested counters are what they were before the step.
ClearEmpties ==
    [][ret'.op = "clear" =>
          /\ logs' = <<>>
          /\ metrics' = <<>>
          /\ traces' = <<>>
          /\ DOMAIN logs_by_id' = {}
          /\ DOMAIN metrics_by_id' = {}
          /\ services' = {}
          /\ get_stats'.logs_stored = 0
          /\ get_stats'.metrics_stored = 0
          /\ get_stats'.traces_stored = 0
          /\ get_stats'.services_count = 0
          /\ get_stats'.logs_ingested = get_stats.logs_ingested
          /\ get_stats'.metrics_ingested = get_stats.metrics_ingested
          /\ get_stats'.traces_ingested = get_stats.traces_ingested]_vars

\* clear has removed a log, a metric and a trace
ClearWitness ==
    /\ ret.op = "clear"
    /\ \E id \in DOMAIN fate.logs : fate.logs[id] = "cleared"
    /\ \E id \in DOMAIN fate.metrics : fate.metrics[id] = "cleared"
    /\ \E id \in TraceIds : fate.traces[id] = "cleared"

\* ---------------------------------------------------------------------------
\* Adds of validated records
\* ---------------------------------------------------------------------------

\* the id of the record that the last add step added
LastAdded ==
    IF "value" \in DOMAIN ret
    THEN IF ret.op \in {"add_log", "add_metric", "add_trace"}
         THEN ret.value ELSE ret.value[Len(ret.value)]
    ELSE batch.result[ret.at]

StoredTraceIds == [i \in 1..Len(traces) |-> traces[i][2].trace_id]

LogObjects == {LogEntry(i, 0, "a", "INFO") : i \in 1..3}

MetricObjects == {MetricDataPoint(i, 0, "a", "cpu") : i \in 1..3}

TraceObjects == {Trace(id, <<SpanAt("b", 0)>>) : id \in TraceIds}

Ingested == stats.logs_ingested + stats.metrics_ingested + stats.traces_ingested

\* add_logs_batch / add_metrics_batch / add_traces_batch called with a list of
\* such records
SubmitBatch(op, recs) ==
    /\ batch = NoBatch
    /\ batch' = [op |-> op, given |-> recs, items |-> recs, result |-> <<>>]
    /\ ret' = [op |-> op, at |-> 0]
    /\ UNCHANGED <<storeVars, created, fate, hist, inserted_at, threadVars>>

\* a caller that is not inside a batch add passes a list of these records, as
\* long as the adds made stay within the budget
Submit(op, objs) ==
    /\ batch = NoBatch
    /\ \E n \in 1..(MaxLogAdds - Ingested) :
          \E recs \in [1..n -> objs] : SubmitBatch(op, recs)

NextSubmit ==
    \/ Submit("add_logs_batch", LogObjects)
    \/ AddLogsBatchStep
    \/ Submit("add_metrics_batch", MetricObjects)
    \/ AddMetricsBatchStep
    \/ Submit("add_traces_batch", TraceObjects)
    \/ AddTracesBatchStep

SpecSubmit == Init /\ [][NextSubmit]_vars

\* the ids of a list of records of the family of the batch add op
GivenIds(op, recs) ==
    [i \in DOMAIN recs |-> IF op = "add_traces_batch" THEN recs[i].trace_id
                                                      ELSE recs[i].id]

\* the per-service lists d after the record rec was appended to the list of
\* its service, with the head of that list gone or not
AppendedTo(d, e, rec) ==
    /\ DictHas(e, rec.service_name)
    /\ DictGet(e, rec.service_name, <<>>) \in
          {Append(DictGet(d, rec.service_name, <<>>), rec),
           Tail(Append(DictGet(d, rec.service_name, <<>>), rec))}
    /\ \A s \in Services \ {rec.service_name} :
          DictGet(e, s, None) = DictGet(d, s, None)

\* C21: a batch add visits the elements of its list in input order and applies
\* the single add to each (the element becomes the last record of the list
\* of its service, or the trace stored under its trace_id); when it returns,
\* the i-th returned id is the id of the i-th record passed; when an element
\* raises, the call ends there and the step leaves in the store what the
\* earlier elements put there: nothing goes but the one head of the list the
\* failing element was appended to, and no counter goes down.
BatchInOrder ==
    [][(batch.op # "none" /\ ret'.op = batch.op /\ batch' # batch) =>
          LET rec == Head(batch.items)
          IN  /\ rec = batch.given[Len(batch.result) + 1]
              /\ batch.result = GivenIds(batch.op, SubSeq(batch.given, 1, Len(batch.result)))
              /\ batch.op = "add_logs_batch" => AppendedTo(logs, logs', rec)
              /\ batch.op = "add_metrics_batch" => AppendedTo(metrics, metrics', rec)
              /\ batch.op = "add_traces_batch" =>
                    DictGet(traces', rec.trace_id, None) = rec
              /\ "value" \in DOMAIN ret' =>
                    ret'.value = GivenIds(batch.op, batch.given)
              /\ "raised" \in DOMAIN ret' =>
                    /\ batch' = NoBatch
                    /\ stats'.logs_ingested >= stats.logs_ingested
                    /\ stats'.metrics_ingested >= stats.metrics_ingested
                    /\ batch.op = "add_logs_batch" =>
                          (metrics' = metrics /\ traces' = traces)
                    /\ batch.op = "add_metrics_batch" =>
                          (logs' = logs /\ traces' = traces)]_vars

\* add_logs_batch has raised at its fourth element, and the list still holds
\* the record of an earlier element next to the record of the failing one
BatchInOrderWitness ==
    /\ ret.op = "add_logs_batch"
    /\ "raised" \in DOMAIN ret
    /\ stats.logs_ingested = 4
    /\ Len(DictGet(logs, "a", <<>>)) = 2
    /\ Cardinality(StoredIds(logs)) = 2

\* ---------------------------------------------------------------------------
\* Re-ingesting a trace
\* ---------------------------------------------------------------------------

\* the step is add_trace(trace), called alone or for a batch element
AddsTrace(trace) ==
    \/ ret'.op = "add_trace" /\ AddTrace(trace)
    \/ /\ ret'.op = "add_traces_batch"
       /\ AddTracesBatchStep
       /\ Head(batch.items) = trace

\* C22: add_trace of a trace whose trace_id is stored puts the new trace in
\* the place of the old one: the lookup of the id gives the new trace, the
\* same trace ids are stored as before (so as many, and none was evicted),
\* every other trace is as it was, and traces_ingested is one higher.
ReingestReplaces ==
    [][\A trace \in SpanTraces :
          (AddsTrace(trace) /\ DictHas(traces, trace.trace_id)) =>
              /\ DictGet(traces', trace.trace_id, None) = trace
              /\ Len(traces') = Len(traces)
              /\ Range(DictKeys(traces')) = Range(DictKeys(traces))
              /\ \A id \in TraceIds \ {trace.trace_id} :
                    /\ DictGet(traces', id, None) = DictGet(traces, id, None)
                    /\ fate'.traces[id] = fate.traces[id]
              /\ stats'.traces_ingested = stats.traces_ingested + 1]_vars

\* the store is full after one add more than it holds traces, none of them
\* evicted, swept or cleared: the last add stored a trace with spans under a
\* trace_id that was stored already or was stored again since
ReingestWitness ==
    /\ ret.op = "add_trace"
    /\ Len(traces) = max_traces
    /\ stats.traces_ingested = max_traces + 1
    /\ \A id \in TraceIds : fate.traces[id] \in {"never", "stored"}
    /\ get_trace_by_id(ret.value).spans # <<>>

\* ---------------------------------------------------------------------------
\* Error logs of a window
\* ---------------------------------------------------------------------------

ErrorLogInputs ==
    {[timestamp |-> 0, service_name |-> "a", level |-> "WARNING"],
     [timestamp |-> 1, service_name |-> "a", level |-> "ERROR"],
     [timestamp |-> 1, service_name |-> "a", level |-> "INFO"],
     [timestamp |-> 1, service_name |-> "b", level |-> "FATAL"],
     [timestamp |-> 0, service_name |-> "b", level |-> "CRITICAL"],
     [timestamp |-> 2, service_name |-> "a", level |-> "FATAL"]}

ErrorWindows == {<<1, 1>>, <<0, 1>>}

NextErrorLogs ==
    \/ \E in \in ErrorLogInputs : created.logs < MaxAdds /\ AddLog(in)
    \/ \E w \in ErrorWindows, svcs \in ServiceLists :
          GetErrorLogsInWindow(w[1], w[2], svcs)

SpecErrorLogs == Init /\ [][NextErrorLogs]_vars

SeriesInputs ==
    {[timestamp |-> 0, service_name |-> "a", metric_name |-> "cpu"],
     [timestamp |-> 1, service_name |-> "a", metric_name |-> "cpu"],
     [timestamp |-> 2, service_name |-> "a", metric_name |-> "cpu"],
     [timestamp |-> 1, service_name |-> "a", metric_name |-> "mem"],
     [timestamp |-> 1, service_name |-> "b", metric_name |-> "cpu"]}

\* the services asked for: the two that get metrics and one that never does
SeriesServices == Services \cup {"c"}

SeriesWindows == {<<1, 1>>, <<0, 1>>}

NextSeries ==
    \/ \E in \in SeriesInputs : created.metrics < MaxAdds /\ AddMetric(in)
    \/ \E s \in SeriesServices, name \in {"cpu", "mem"}, w \in SeriesWindows :
          GetMetricSeries(s, name, w[1], w[2])

SpecSeries == Init /\ [][NextSeries]_vars

\* all stored metric points
AllMetrics == UNION {Range(metrics[i][2]) : i \in DOMAIN metrics}

\* C24: get_metric_series(service, metric_name, start, end) returns exactly
\* the stored points of that service with that metric name and start <=
\* timestamp <= end, each once, non-decreasing by timestamp; no point of
\* another service or name; the empty list for a service without metrics.
SeriesExact ==
    ret.op = "get_metric_series" =>
        LET a == ret.args
        IN  /\ Range(ret.value) =
                  {m \in AllMetrics :
                      /\ m.service_name = a.service_name
                      /\ m.metric_name = a.metric_name
                      /\ a.start <= m.timestamp
                      /\ m.timestamp <= a.end}
            /\ Len(ret.value) = Cardinality(Range(ret.value))
            /\ \A i \in 1..(Len(ret.value) - 1) :
                  ret.value[i].timestamp <= ret.value[i + 1].timestamp
            /\ \A i \in DOMAIN ret.value :
                  /\ ret.value[i].service_name = a.service_name
                  /\ ret.value[i].metric_name = a.metric_name
            /\ ~DictHas(metrics, a.service_name) => ret.value = <<>>

\* the list of the service holds a point of another name and a point of the
\* name asked for, both in the window, and another service has a point of
\* that name in the window: the one point is returned
SeriesWitness ==
    /\ ret.op = "get_metric_series"
    /\ ret.args.service_name = "a"
    /\ ret.args.metric_name = "cpu"
    /\ Len(ret.value) = 1
    /\ \E m \in AllMetrics :
          /\ m.service_name = "a" /\ m.metric_name = "mem"
          /\ ret.args.start <= m.timestamp /\ m.timestamp <= ret.args.end
    /\ \E m \in AllMetrics :
          /\ m.service_name = "b" /\ m.metric_name = "cpu"
          /\ ret.args.start <= m.timestamp /\ m.timestamp <= ret.args.end

\* ---------------------------------------------------------------------------
\* Trace queries
\* ---------------------------------------------------------------------------

\* a span of service s that starts at t and ended with the status
SpanOf(s, t, status) == Span(s, t, t, None, status, 0)

QuerySpanLists ==
    {<<SpanOf("a", 0, "OK")>>,
     <<SpanOf("a", 0, "OK"), SpanOf("b", 1, "OK")>>,
     <<SpanOf("a", 1, "ERROR"), SpanOf("a", 1, "OK")>>,
     <<SpanOf("a", 0, "ERROR"), SpanOf("b", 1, "OK")>>,
     <<SpanOf("b", 1, "OK")>>}

QueryTraces == {Trace(id, spans) : id \in TraceIds, spans \in QuerySpanLists}

QueryWindows == {<<1, 1>>, <<0, 1>>}

NextTraceQueries ==
    \/ \E trace \in QueryTraces : created.traces < MaxTraceAdds /\ AddTrace(trace)
    \/ \E s \in Services, w \in QueryWindows : GetTracesForService(s, w[1], w[2])
    \/ \E w \in QueryWindows, svcs \in ServiceLists :
          GetErrorTracesInWindow(w[1], w[2], svcs)

SpecTraceQueries == Init /\ [][NextTraceQueries]_vars

\* the stored traces
AllTraces == Range(DictValues(traces))

\* the spans of the trace that belong to one of the services and start in
\* the window
SpansIn(trace, among, start, end) ==
    {i \in DOMAIN trace.spans :
        /\ trace.spans[i].service_name \in among
        /\ start <= trace.spans[i].start_time
        /\ trace.spans[i].start_time <= end}

\* C25: get_traces_for_service(service, start, end) returns a stored trace if
\* and only if one of its spans is a span of the service with start <=
\* start_time <= end (a span of the service outside the window and a span of
\* another service inside it do not add up to a match), and returns it once,
\* however many of its spans match.
ServiceTracesExact ==
    ret.op = "get_traces_for_service" =>
        LET a == ret.args
        IN  /\ Range(ret.value) =
                  {trace \in AllTraces :
                      SpansIn(trace, {a.service_name}, a.start, a.end) # {}}
            /\ Len(ret.value) = Cardinality(Range(ret.value))

\* of two stored traces the one with two spans of the service in the window
\* is returned, once; the other, with a span of the service before the window
\* and a span of another service in it, is not
ServiceTracesWitness ==
    /\ ret.op = "get_traces_for_service"
    /\ Len(traces) = 2
    /\ Len(ret.value) = 1
    /\ Cardinality(SpansIn(ret.value[1], {ret.args.service_name},
                           ret.args.start, ret.args.end)) = 2
    /\ \E trace \in AllTraces :
          /\ SpansIn(trace, {ret.args.service_name}, 0, ret.args.start - 1) # {}
          /\ SpansIn(trace, Services \ {ret.args.service_name},
                     ret.args.start, ret.args.end) # {}
          /\ trace \notin Range(ret.value)

\* C26: get_error_traces_in_window(start, end, services) returns a stored
\* trace if and only if its has_error flag is set and one of its spans has
\* start <= start_time <= end, counting only spans of the listed services when
\* services is a non-empty list (None and the empty list restrict nothing);
\* each such trace once, and no trace whose flag is not set.
ErrorTracesExact ==
    ret.op = "get_error_traces_in_window" =>
        LET a == ret.args
            asked == IF a.services = None \/ a.services = Given(<<>>)
                     THEN Services ELSE Range(a.services.list)
        IN  /\ Range(ret.value) =
                  {trace \in AllTraces :
                      /\ trace.has_error
                      /\ SpansIn(trace, asked, a.start, a.end) # {}}
            /\ Len(ret.value) = Cardinality(Range(ret.value))
            /\ \A i \in DOMAIN ret.value : ret.value[i].has_error

\* asked for one service: of two stored error traces the one with two spans
\* of that service in the window is returned, once; the other has its span of
\* that service before the window and is not
ErrorTracesWitness ==
    /\ ret.op = "get_error_traces_in_window"
    /\ ret.args.services = Given(<<"a">>)
    /\ Len(traces) = 2
    /\ \A trace \in AllTraces : trace.has_error
    /\ Len(ret.value) = 1
    /\ Cardinality(SpansIn(ret.value[1], {"a"}, ret.args.start, ret.args.end)) = 2
    /\ \E trace \in AllTraces :
          /\ SpansIn(trace, {"a"}, 0, ret.args.start - 1) # {}
          /\ SpansIn(trace, {"b"}, ret.args.start, ret.args.end) # {}
          /\ trace \notin Range(ret.value)

\* ---------------------------------------------------------------------------
\* The derived fields of a trace
\* ---------------------------------------------------------------------------

DerivedSpans ==
    {Span(s, 0, 0, parent, status, d) :
        s \in Services, parent \in {None, [span_id |-> "p"]},
        status \in {"OK", "ERROR", "UNSET"}, d \in {5, 7}}

DerivedSpanLists == UNION {[1..n -> DerivedSpans] : n \in 0..MaxSpans}

\* a caller builds a trace from a list of spans
BuildTrace(spans) ==
    /\ ret' = [op |-> "Trace", args |-> [spans |-> spans],
               value |-> Trace("A", spans)]
    /\ UNCHANGED <<storeVars, ghostVars, threadVars>>

\* one construction is looked at, the first thing done
NextDerived ==
    /\ ret.op = "__init__"
    /\ \E spans \in DerivedSpanLists : BuildTrace(spans)

SpecDerived == Init /\ [][NextDerived]_vars

\* C27: for every list of spans the trace built from it has as root_service
\* the service of the first span of the list without a parent (None when
\* there is no such span), as total_duration_ms the duration of that span (0
\* when there is none, so also for no spans), and has_error true exactly when
\* a span has the status ERROR.
DerivedFields ==
    ret.op = "Trace" =>
        LET spans == ret.args.spans
            roots == {i \in DOMAIN spans : spans[i].parent_span_id = None}
            first == CHOOSE i \in roots : \A j \in roots : i <= j
        IN  /\ ret.value.spans = spans
            /\ roots = {} => /\ ret.value.root_service = None
                             /\ ret.value.total_duration_ms = 0
            /\ roots # {} => /\ ret.value.root_service = spans[first].service_name
                             /\ ret.value.total_duration_ms = spans[first].duration_ms
            /\ ret.value.has_error = (\E i \in DOMAIN spans : spans[i].status = "ERROR")

\* a child span comes first, then two parentless spans of different services
\* and durations, the second of them with the status ERROR
DerivedWitness ==
    /\ ret.op = "Trace"
    /\ Len(ret.args.spans) = 3
    /\ ret.args.spans[1].parent_span_id # None
    /\ ret.args.spans[2].parent_span_id = None
    /\ ret.args.spans[3].parent_span_id = None
    /\ ret.args.spans[2].service_name # ret.args.spans[3].service_name
    /\ ret.args.spans[2].duration_ms # ret.args.spans[3].duration_ms
    /\ ret.args.spans[2].status = "OK"
    /\ ret.args.spans[3].status = "ERROR"
    /\ ret.value.root_service = ret.args.spans[2].service_name
    /\ ret.value.has_error

\* ---------------------------------------------------------------------------
\* The registry of services
\* ---------------------------------------------------------------------------

\* C28: the service name of every stored log, of every stored metric and of
\* every span of every stored trace is among the names get_services returns.
RegistryCovers ==
    /\ \A log \in AllLogs : log.service_name \in get_services
    /\ \A m \in AllMetrics : m.service_name \in get_services
    /\ \A trace \in AllTraces :
          \A i \in DOMAIN trace.spans : trace.spans[i].service_name \in get_services

\* logs and metrics of one service are stored and add_trace has stored a trace
\* with a span of the other service: the registry holds both names
RegistryWitness ==
    /\ ret.op = "add_trace"
    /\ {log.service_name : log \in AllLogs} = {"a"}
    /\ {m.service_name : m \in AllMetrics} = {"a"}
    /\ \E trace \in AllTraces :
          \E i \in DOMAIN trace.spans : trace.spans[i].service_name = "b"
    /\ get_services = {"a", "b"}

\* ---------------------------------------------------------------------------
\* Metrics beside logs
\* ---------------------------------------------------------------------------

\* the calls come in pairs: each add_log is followed by the add_metric of a
\* point of the same service and timestamp (the two ids are the same number
\* of their family), and cleanup_old_data and clear act on both families
InStep == created.logs = created.metrics

MirrorOf(log) ==
    [timestamp |-> log.timestamp, service_name |-> log.service_name,
     metric_name |-> "cpu"]

NextMirror ==
    \/ \E in \in LogInputs : InStep /\ created.logs < MaxAdds /\ AddLog(in)
    \/ ~InStep /\ AddMetric(MirrorOf(get_log_by_id(created.logs)))
    \/ \E now \in Nows : InStep /\ Cleanup(now)
    \/ InStep /\ Clear

SpecMirror == Init /\ [][NextMirror]_vars

\* what a log and a metric point have in common
Common(rec) ==
    IF rec = None THEN None
    ELSE [id |-> rec.id, timestamp |-> rec.timestamp, service_name |-> rec.service_name]

CommonLists(d) ==
    [i \in DOMAIN d |-> <<d[i][1], [j \in DOMAIN d[i][2] |-> Common(d[i][2][j])]>>]

CommonIndex(m) == [id \in DOMAIN m |-> Common(m[id])]

\* C29: run on records of the same services, ids and timestamps with equal
\* caps, add_metric / get_metric_by_id / cleanup_old_data / clear leave the
\* metric family as the same calls leave the log family, after every call:
\* the per-service lists, the by-id indexes, the lookups of every id and the
\* ingested counters are equal, an add returns the same id and adds the
\* service of its record to the registry, and a sweep counts the same number
\* of removals.
MetricsMirrorLogs ==
    [][/\ InStep' =>
             /\ CommonLists(metrics') = CommonLists(logs')
             /\ CommonIndex(metrics_by_id') = CommonIndex(logs_by_id')
             /\ \A id \in 1..(MaxAdds + 1) :
                   Common(get_metric_by_id(id)') = Common(get_log_by_id(id)')
             /\ stats'.metrics_ingested = stats'.logs_ingested
       /\ ret'.op = "add_log" =>
             /\ ret'.value = created'.logs
             /\ services' = services \cup {IndexGet(logs_by_id', ret'.value).service_name}
       /\ ret'.op = "add_metric" =>
             /\ ret'.value = created'.metrics
             /\ services' = services \cup {IndexGet(metrics_by_id', ret'.value).service_name}
             /\ services' = services
       /\ ret'.op = "cleanup_old_data" =>
             (ret'.value.metrics = ret'.value.logs /\ services' = services)
       /\ ret'.op = "clear" => services' = {}]_vars

\* after three pairs of adds, the last with an eviction, a sweep has removed
\* one metric point and left one
MirrorWitness ==
    /\ InStep
    /\ ret.op = "cleanup_old_data"
    /\ ret.value.metrics = 1
    /\ stats.metrics_ingested = 3
    /\ \E id \in DOMAIN fate.metrics : fate.metrics[id] = "evicted"
    /\ SumLen(DictValues(metrics)) = 1

\* ---------------------------------------------------------------------------
\* Sweeps beside concurrent adds
\* ---------------------------------------------------------------------------

SweepLogInputs ==
    {[timestamp |-> t, service_name |-> "a", level |-> "INFO"] : t \in Times}

SweepMetricInputs ==
    {[timestamp |-> t, service_name |-> "a", metric_name |-> "cpu"] : t \in Times}

\* one thread adds records while the other sweeps
Adder == "t1"

Sweeper == "t2"

NextSweepThreads ==
    \/ \E in \in SweepLogInputs : Made < MaxAdds /\ CallAddLog(Adder, in)
    \/ \E in \in SweepMetricInputs : Made < MaxAdds /\ CallAddMetric(Adder, in)
    \/ \E trace \in ThreadTraceInputs : Made < MaxAdds /\ CallAddTrace(Adder, trace)
    \/ \E now \in Nows : CallCleanup(Sweeper, now)
    \/ \E t \in Threads : cleanup_sweep(t)
    \/ \E t \in Threads : Acquire(t)
    \/ \E t \in Threads : add_log_append(t)
    \/ \E t \in Threads : add_log_index(t)
    \/ \E t \in Threads : add_log_register(t)
    \/ \E t \in Threads : add_log_count(t)
    \/ \E t \in Threads : add_log_count_store(t)
    \/ \E t \in Threads : add_log_limit(t)
    \/ \E t \in Threads : add_log_unindex(t)
    \/ \E t \in Threads : add_log_return(t)
    \/ \E t \in Threads : add_metric_append(t)
    \/ \E t \in Threads : add_metric_index(t)
    \/ \E t \in Threads : add_metric_register(t)
    \/ \E t \in Threads : add_metric_count(t)
    \/ \E t \in Threads : add_metric_count_store(t)
    \/ \E t \in Threads : add_metric_limit(t)
    \/ \E t \in Threads : add_metric_unindex(t)
    \/ \E t \in Threads : add_metric_return(t)
    \/ \E t \in Threads : add_trace_put(t)
    \/ \E t \in Threads : add_trace_count(t)
    \/ \E t \in Threads : add_trace_count_store(t)
    \/ \E t \in Threads : add_trace_register(t)
    \/ \E t \in Threads : add_trace_limit(t)
    \/ \E t \in Threads : add_trace_return(t)

SpecSweepThreads == Init /\ [][NextSweepThreads]_vars

Datetime(at, aware) == [at |-> at, aware |-> aware]

\* timedelta(days=7) and timedelta(minutes=5), on the small clock of the model
days_7 == 2

minutes_5 == 1

\* `timestamp < max_past` / `timestamp > max_future` with the naive
\* datetime.utcnow(): ordering an aware datetime against a naive one raises
\* TypeError
validate_timestamp(timestamp, now) ==
    LET max_past   == now - days_7
        max_future == now + minutes_5
    IN  IF timestamp.aware
        THEN [raised |-> "TypeError"]
        ELSE IF timestamp.at < max_past
             THEN [valid |-> FALSE, error |-> "too far in the past"]
             ELSE IF timestamp.at > max_future
                  THEN [valid |-> FALSE, error |-> "in the future"]
                  ELSE [valid |-> TRUE, error |-> "None"]

\* the names that match ^[a-zA-Z0-9_-]+$ among the names of the model
WellFormedNames == Services

validate_service_name(service_name) ==
    IF service_name = ""
    THEN [valid |-> FALSE, error |-> "Service name cannot be empty"]
    ELSE IF service_name \notin WellFormedNames
         THEN [valid |-> FALSE, error |-> "Service name contains invalid characters"]
         ELSE [valid |-> TRUE, error |-> "None"]

\* validate_log_entry: the checks in their order; the record built for a
\* request that passes them is the n-th record created
validate_log_entry(data, now, n) ==
    LET ts   == validate_timestamp(data.timestamp, now)
        name == validate_service_name(data.service_name)
    IN  IF "raised" \in DOMAIN ts
        THEN ts
        ELSE IF ~ts.valid
             THEN [error |-> ts.error]
             ELSE IF ~name.valid
                  THEN [error |-> name.error]
                  ELSE IF data.message = ""
                       THEN [error |-> "Log message cannot be empty"]
                       ELSE [item |-> NewLog(n, [timestamp |-> data.timestamp.at,
                                                 service_name |-> data.service_name,
                                                 level |-> data.level])]

\* a fresh ValidationResult
ValidationResult == [valid_items |-> <<>>, errors |-> <<>>]

\* validate_log_batch: the loop from element idx on; an exception of an element
\* leaves the loop and the function
RECURSIVE validate_log_batch(_, _, _, _)
validate_log_batch(datas, now, idx, result) ==
    IF idx > Len(datas)
    THEN result
    ELSE LET one == validate_log_entry(datas[idx], now,
                                       created.logs + Len(result.valid_items) + 1)
         IN  IF "raised" \in DOMAIN one
             THEN one
             ELSE IF "error" \in DOMAIN one
                  THEN validate_log_batch(datas, now, idx + 1,
                         [result EXCEPT !.errors = Append(@, <<idx - 1, one.error>>)])
                  ELSE validate_log_batch(datas, now, idx + 1,
                         [result EXCEPT !.valid_items = Append(@, one.item)])

\* errors[:10]
First10(errors) == SubSeq(errors, 1, IF Len(errors) < 10 THEN Len(errors) ELSE 10)

\* the IngestResponse of a batch endpoint
IngestResponse(result) ==
    [success |-> Len(result.valid_items) > 0,
     ingested_count |-> Len(result.valid_items),
     failed_count |-> Len(result.errors),
     errors |-> First10(result.errors)]

\* ingest_log: POST /log
IngestLog(data, now) ==
    LET one == validate_log_entry(data, now, created.logs + 1)
    IN  /\ batch = NoBatch
        /\ IF "raised" \in DOMAIN one
           THEN /\ ret' = [op |-> "ingest_log", args |-> data, now |-> now,
                           raised |-> one.raised]
                /\ UNCHANGED <<storeVars, ghostVars>>
           ELSE IF "error" \in DOMAIN one
                THEN /\ ret' = [op |-> "ingest_log", args |-> data, now |-> now,
                                value |-> [success |-> FALSE, ingested_count |-> 0,
                                           failed_count |-> 1,
                                           errors |-> <<one.error>>]]
                     /\ UNCHANGED <<storeVars, ghostVars>>
                ELSE /\ created' = [created EXCEPT !.logs = @ + 1]
                     /\ add_log(one.item)
                     /\ ret' = [op |-> "ingest_log", args |-> data, now |-> now,
                                value |-> [success |-> TRUE, ingested_count |-> 1,
                                           failed_count |-> 0, errors |-> <<>>]]
                     /\ UNCHANGED batch
        /\ UNCHANGED threadVars

\* ingest_logs_batch: POST /logs/batch.  The validation, then
\* `if result.valid_items: store.add_logs_batch(result.valid_items)`, whose
\* adds are the steps of AddLogsBatchStep; the request, the counter read
\* before the adds and the response that is returned after them travel in the
\* frame of the batch add
IngestLogsBatch(datas, now) ==
    LET result == validate_log_batch(datas, now, 1, ValidationResult)
    IN  /\ batch = NoBatch
        /\ IF "raised" \in DOMAIN result
           THEN /\ ret' = [op |-> "ingest_logs_batch", args |-> datas, now |-> now,
                           raised |-> result.raised]
                /\ UNCHANGED <<storeVars, ghostVars>>
           ELSE IF result.valid_items = <<>>
                THEN /\ ret' = [op |-> "ingest_logs_batch", args |-> datas,
                                now |-> now, value |-> IngestResponse(result)]
                     /\ UNCHANGED <<storeVars, ghostVars>>
                ELSE /\ batch' = [op |-> "add_logs_batch",
                                  given |-> result.valid_items,
                                  items |-> result.valid_items,
                                  result |-> <<>>,
                                  request |-> [args |-> datas, now |-> now,
                                               before |-> stats.logs_ingested,
                                               response |-> IngestResponse(result)]]
                     /\ created' = [created EXCEPT !.logs = @ + Len(result.valid_items)]
                     /\ fate' = [fate EXCEPT !.logs =
                                   Mark(@, Range(IdsOf(result.valid_items)), "new")]
                     /\ ret' = [op |-> "add_logs_batch", at |-> 0]
                     /\ UNCHANGED <<storeVars, hist, inserted_at>>
        /\ UNCHANGED threadVars

\* request bodies: two that pass every check, one too old, one in the future,
\* one of a malformed service name, one of an empty message, and one whose
\* timestamp carries a zone
NaiveLog(at, service_name, message) ==
    [timestamp |-> Datetime(at, FALSE), service_name |-> service_name,
     level |-> "INFO", message |-> message]

IngestNow == days_7 + 1

IngestLogInputs ==
    {NaiveLog(IngestNow, "a", "m"), NaiveLog(IngestNow - 1, "b", "m"),
     NaiveLog(0, "a", "m"), NaiveLog(IngestNow + minutes_5 + 1, "a", "m"),
     NaiveLog(IngestNow, "a b", "m"), NaiveLog(IngestNow, "a", ""),
     [timestamp |-> Datetime(IngestNow, TRUE), service_name |-> "a",
      level |-> "INFO", message |-> "m"]}

IngestNows == {IngestNow, IngestNow + 1}

\* requests arrive while the adds made and asked for stay within the budget
NextIngest ==
    \/ /\ batch = NoBatch
       /\ \E n \in 1..(MaxAdds - stats.logs_ingested) :
             \E now \in IngestNows : \E datas \in [1..n -> IngestLogInputs] :
                 IngestLogsBatch(datas, now)
    \/ AddLogsBatchStep
    \/ /\ stats.logs_ingested < MaxAdds
       /\ \E now \in IngestNows : \E data \in IngestLogInputs : IngestLog(data, now)

SpecIngest == Init /\ [][NextIngest]_vars

\* the element alone passes the validation at the time of the request
Passes(data, now) == "item" \in DOMAIN validate_log_entry(data, now, 0)

\* the elements of a request that pass, in the order of the request
RECURSIVE Passing(_, _)
Passing(datas, now) ==
    IF datas = <<>> THEN <<>>
    ELSE (IF Passes(Head(datas), now) THEN <<Head(datas)>> ELSE <<>>)
         \o Passing(Tail(datas), now)

\* what a stored record and a request element have in common
SameLog(log, data) ==
    /\ log.timestamp = data.timestamp.at
    /\ log.service_name = data.service_name
    /\ log.level = data.level

\* C31: a batch request is answered for every batch: the elements that pass
\* validation are the ones added, in the order of the request, whatever the
\* other elements are; ingested_count + failed_count is the size of the batch
\* and ingested_count is the increase of logs_ingested
BatchTolerant ==
    [][/\ ret'.op = "ingest_logs_batch" =>
            /\ "value" \in DOMAIN ret'
            /\ Passing(ret'.args, ret'.now) = <<>>
            /\ ret'.value.ingested_count = 0
            /\ ret'.value.failed_count = Len(ret'.args)
            /\ stats'.logs_ingested = stats.logs_ingested
       /\ (batch.op = "add_logs_batch" /\ "request" \in DOMAIN batch
              /\ batch' = NoBatch) =>
            LET req == batch.request
                passing == Passing(req.args, req.now)
            IN  /\ "value" \in DOMAIN ret'
                /\ ret'.value = IdsOf(batch.given)
                /\ Len(batch.given) = Len(passing)
                /\ \A i \in DOMAIN passing : SameLog(batch.given[i], passing[i])
                /\ req.response.ingested_count + req.response.failed_count
                      = Len(req.args)
                /\ req.response.ingested_count
                      = stats'.logs_ingested - req.before]_vars

\* a batch request with an element in error between two that pass was
\* answered: two added, one failed
BatchTolerantWitness ==
    /\ ret.op = "add_logs_batch"
    /\ "value" \in DOMAIN ret
    /\ Len(ret.value) = 2
    /\ stats.logs_ingested = 2
    /\ created.logs = 2

\* ---------------------------------------------------------------------------
\* Construction of the store
\* ---------------------------------------------------------------------------

\* the application settings the constructor falls back to (config.py)
settings ==
    [telemetry_retention_hours |-> 24, max_logs_per_service |-> 100000,
     max_metrics_per_service |-> 100000, max_traces |-> 50000]

Params == {"retention_hours", "max_logs_per_service", "max_metrics_per_service",
           "max_traces"}

\* `x or default` for an int parameter whose default is None: kwargs holds the
\* parameters that were passed; None and 0 are false
OrDefault(kwargs, param, default) ==
    IF param \in DOMAIN kwargs /\ kwargs[param] # 0 THEN kwargs[param] ELSE default

\* TelemetryStore.__init__: the attributes the limits are read from afterwards
\* (_retention in hours)
TelemetryStore(kwargs) ==
    [_retention |-> OrDefault(kwargs, "retention_hours",
                              settings.telemetry_retention_hours),
     _max_logs |-> OrDefault(kwargs, "max_logs_per_service",
                             settings.max_logs_per_service),
     _max_metrics |-> OrDefault(kwargs, "max_metrics_per_service",
                                settings.max_metrics_per_service),
     _max_traces |-> OrDefault(kwargs, "max_traces", settings.max_traces)]

\* a store is constructed with some of the parameters passed
Construct(kwargs) ==
    /\ ret' = [op |-> "TelemetryStore", args |-> kwargs,
               value |-> TelemetryStore(kwargs)]
    /\ UNCHANGED <<storeVars, ghostVars, threadVars>>

\* the values a parameter is passed with
ConfigValues == 0..MaxAdds

NextConfig ==
    \E S \in SUBSET Params : \E kwargs \in [S -> ConfigValues] : Construct(kwargs)

SpecConfig == Init /\ [][NextConfig]_vars

\* the attribute a parameter is kept in
AttrOf ==
    [retention_hours |-> "_retention", max_logs_per_service |-> "_max_logs",
     max_metrics_per_service |-> "_max_metrics", max_traces |-> "_max_traces"]

DefaultOf ==
    [retention_hours |-> settings.telemetry_retention_hours,
     max_logs_per_service |-> settings.max_logs_per_service,
     max_metrics_per_service |-> settings.max_metrics_per_service,
     max_traces |-> settings.max_traces]

\* C32: a constructed store enforces, for every parameter that was passed, the
\* value passed (a list is over the limit exactly when it is longer than that
\* value), and the default of the settings for a parameter that was not passed
ConfigExact ==
    ret.op = "TelemetryStore" =>
        \A p \in Params :
            LET kept == ret.value[AttrOf[p]]
            IN  IF p \in DOMAIN ret.args
                THEN /\ kept = ret.args[p]
                     /\ \A n \in 0..(MaxAdds + 1) :
                           OverLimit(n, kept) <=> n > ret.args[p]
                ELSE kept = DefaultOf[p]

\* the same for the values that are not zero
ConfigExactNonZero ==
    ret.op = "TelemetryStore" =>
        \A p \in Params :
            LET kept == ret.value[AttrOf[p]]
            IN  IF p \in DOMAIN ret.args
                THEN ret.args[p] # 0 => kept = ret.args[p]
                ELSE kept = DefaultOf[p]

\* ---------------------------------------------------------------------------
\* Single adds of the three families, each past its cap
\* ---------------------------------------------------------------------------

FrameLogInputs == [timestamp : {0}, service_name : Services, level : {"INFO"}]

FrameMetricInputs == [timestamp : {0}, service_name : Services, metric_name : {"cpu"}]

FrameTraceInputs == {Trace(id, <<SpanAt("b", 0)>>) : id \in TraceIds}

\* the adds of metrics, and of traces, next to the logs that fill a service
FrameOthers == 2

NextFrame ==
    \/ \E in \in FrameLogInputs :
          created.logs < max_logs_per_service + 2 /\ AddLog(in)
    \/ \E in \in FrameMetricInputs :
          created.metrics < FrameOthers /\ AddMetric(in)
    \/ \E trace \in FrameTraceInputs :
          created.traces < FrameOthers /\ AddTrace(trace)

SpecFrame == Init /\ [][NextFrame]_vars

\* the last entry of every list of d that differs in e is the record id
OnlyListOf(d, e, id) ==
    \A s \in ChangedLists(d, e) :
        LET lst == DictGet(e, s, <<>>)
        IN  lst # <<>> /\ lst[Len(lst)].id = id

\* C33: add_log changes the log list of the service of its record only and
\* leaves the metric lists, the metric index, the traces and the counters of
\* metrics and traces as they were; add_metric and add_trace likewise for the
\* other families.  An eviction in one service therefore takes no entry of
\* another service.
FamiliesIndependent ==
    [][/\ ret'.op = "add_log" /\ stats'.logs_ingested # stats.logs_ingested =>
             /\ OnlyListOf(logs, logs', ret'.value)
             /\ metrics' = metrics /\ metrics_by_id' = metrics_by_id
             /\ traces' = traces
             /\ stats'.metrics_ingested = stats.metrics_ingested
             /\ stats'.traces_ingested = stats.traces_ingested
       /\ ret'.op = "add_metric" /\ stats'.metrics_ingested # stats.metrics_ingested =>
             /\ OnlyListOf(metrics, metrics', ret'.value)
             /\ logs' = logs /\ logs_by_id' = logs_by_id
             /\ traces' = traces
             /\ stats'.logs_ingested = stats.logs_ingested
             /\ stats'.traces_ingested = stats.traces_ingested
       /\ ret'.op = "add_trace" /\ stats'.traces_ingested # stats.traces_ingested =>
             /\ logs' = logs /\ logs_by_id' = logs_by_id
             /\ metrics' = metrics /\ metrics_by_id' = metrics_by_id
             /\ stats'.logs_ingested = stats.logs_ingested
             /\ stats'.metrics_ingested = stats.metrics_ingested]_vars

\* an add_log has just evicted a log of its full service while the other
\* service holds a log, and metrics and traces are stored
FamiliesWitness ==
    /\ ret.op = "add_log"
    /\ "value" \in DOMAIN ret
    /\ \E id \in DOMAIN fate.logs : fate.logs[id] = "evicted"
    /\ \E s \in Services :
          LET lst == DictGet(logs, s, <<>>)
          IN  /\ Len(lst) = max_logs_per_service
              /\ lst[Len(lst)].id = ret.value
              /\ \E s2 \in Services \ {s} : DictGet(logs, s2, <<>>) # <<>>
    /\ metrics # <<>>
    /\ traces # <<>>

\* ---------------------------------------------------------------------------
\* The module-level store: get_telemetry_store called by threads
\* ---------------------------------------------------------------------------

\* the callers of get_telemetry_store
Callers == Threads \cup {"t3"}

\* a TelemetryStore instance, by the order of its construction
Instance(n) == [store |-> n]

\* the state when repository.py has been imported: `_telemetry_store = None`,
\* kept with the frames under the name of the module; no store constructed
InitModule ==
    /\ logs = <<>>
    /\ metrics = <<>>
    /\ traces = <<>>
    /\ logs_by_id = <<>>
    /\ metrics_by_id = <<>>
    /\ services = {}
    /\ stats = [logs_ingested |-> 0, metrics_ingested |-> 0, traces_ingested |-> 0]
    /\ created = [logs |-> 0, metrics |-> 0, traces |-> 0, stores |-> 0]
    /\ batch = NoBatch
    /\ ret = [op |-> "import"]
    /\ fate = [logs |-> <<>>, metrics |-> <<>>,
               traces |-> [id \in TraceIds |-> "never"]]
    /\ hist = [clean |-> TRUE, appended |-> [s \in Services |-> <<>>]]
    /\ inserted_at = <<>>
    /\ lock = {}
    /\ frames = [t \in Callers \cup {"repository"} |->
                    IF t = "repository" THEN [_telemetry_store |-> None] ELSE Idle]
    /\ serial = <<>>

\* what a step of get_telemetry_store leaves alone
moduleFrame == <<storeVars, batch, fate, hist, inserted_at, lock, serial>>

\* a thread that is in no call calls get_telemetry_store
CallGetStore(t) ==
    /\ frames[t].pc \in {"idle", "returned"}
    /\ frames' = [frames EXCEPT ![t] = [pc |-> "test", op |-> "get_telemetry_store"]]
    /\ UNCHANGED <<moduleFrame, created, ret>>

\* `if _telemetry_store is None:`
get_telemetry_store_test(t) ==
    /\ At(t, "get_telemetry_store", "test")
    /\ frames' = Goto(t, IF frames.repository._telemetry_store = None
                         THEN "construct" ELSE "return")
    /\ UNCHANGED <<moduleFrame, created, ret>>

\* `TelemetryStore()`: the value of the right-hand side
get_telemetry_store_construct(t) ==
    /\ At(t, "get_telemetry_store", "construct")
    /\ frames' = [frames EXCEPT ![t] = [pc |-> "assign", op |-> "get_telemetry_store",
                                        new |-> Instance(created.stores + 1)]]
    /\ created' = [created EXCEPT !.stores = @ + 1]
    /\ UNCHANGED <<moduleFrame, ret>>

\* `_telemetry_store = ...`
get_telemetry_store_assign(t) ==
    /\ At(t, "get_telemetry_store", "assign")
    /\ frames' = [frames EXCEPT ![t] = [pc |-> "return", op |-> "get_telemetry_store"],
                                !.repository._telemetry_store = frames[t].new]
    /\ UNCHANGED <<moduleFrame, created, ret>>

\* `return _telemetry_store`: the global is read again; the caller keeps the
\* handle
get_telemetry_store_return(t) ==
    /\ At(t, "get_telemetry_store", "return")
    /\ frames' = [frames EXCEPT ![t] = [pc |-> "returned", op |-> "none",
                                        value |-> frames.repository._telemetry_store]]
    /\ ret' = [op |-> "get_telemetry_store", thread |-> t,
               value |-> frames.repository._telemetry_store]
    /\ UNCHANGED <<moduleFrame, created>>

NextSingleton ==
    \/ \E t \in Callers : CallGetStore(t)
    \/ \E t \in Callers : get_telemetry_store_test(t)
    \/ \E t \in Callers : get_telemetry_store_construct(t)
    \/ \E t \in Callers : get_telemetry_store_assign(t)
    \/ \E t \in Callers : get_telemetry_store_return(t)

SpecSingleton == InitModule /\ [][NextSingleton]_vars

\* C34: at most one TelemetryStore is ever constructed, and the handles the
\* callers of get_telemetry_store hold are one and the same instance
SingleInstance ==
    /\ created.stores <= 1
    /\ \A t, u \in Callers :
          frames[t].pc = "returned" /\ frames[u].pc = "returned"
             => frames[t].value = frames[u].value

\* ---------------------------------------------------------------------------
\* Records whose timestamps carry a zone
\* ---------------------------------------------------------------------------

\* a record built with an aware datetime
WithZone(rec) == [x \in (DOMAIN rec) \cup {"tzinfo"} |->
                     IF x = "tzinfo" THEN "UTC" ELSE rec[x]]

IsAware(rec) == "tzinfo" \in DOMAIN rec

\* `x.timestamp > cutoff` with the naive cutoff raises TypeError at the first
\* aware record of the list
Raises(lst) == \E i \in DOMAIN lst : IsAware(lst[i])

\* the position of the first service whose comprehension raises, 0 if none
FirstRaising(d) ==
    IF \E i \in DOMAIN d : Raises(d[i][2])
    THEN CHOOSE i \in DOMAIN d :
            /\ Raises(d[i][2])
            /\ \A j \in 1..(i - 1) : ~Raises(d[j][2])
    ELSE 0

\* the lists of d when the loop over the services was left at position k: the
\* services before k were assigned their swept lists
SweptBefore(d, cutoff, k) ==
    [i \in DOMAIN d |-> IF i < k THEN <<d[i][1], CleanList(d[i][2], cutoff)>>
                                 ELSE d[i]]

\* cleanup_old_data on a store that may hold aware logs and metrics (the spans
\* are naive): the exception of a comparison leaves the `with` block and the
\* call, after the assignments made so far
cleanup_old_data_zoned(cutoff) ==
    LET kl       == FirstRaising(logs)
        km       == FirstRaising(metrics)
        logs2    == IF kl > 0 THEN SweptBefore(logs, cutoff, kl)
                              ELSE CleanDict(logs, cutoff)
        metrics2 == IF kl > 0 THEN metrics ELSE SweptBefore(metrics, cutoff, km)
    IN  IF kl = 0 /\ km = 0
        THEN cleanup_old_data(cutoff)
        ELSE /\ logs' = logs2
             /\ metrics' = metrics2
             /\ ret' = [op |-> "cleanup_old_data", raised |-> "TypeError"]
             /\ fate' = [fate EXCEPT
                            !.logs = Mark(@, StoredIds(logs) \ StoredIds(logs2), "swept"),
                            !.metrics = Mark(@, StoredIds(metrics) \ StoredIds(metrics2),
                                             "swept")]
             /\ hist' = HistStop
             /\ UNCHANGED <<traces, inserted_at, logs_by_id, metrics_by_id, services,
                            stats, created, batch>>

CleanupZoned(now) ==
    /\ cleanup_old_data_zoned(now - retention_hours)
    /\ UNCHANGED threadVars

\* validate_timestamp, called when the clock reads now
ValidateTimestamp(timestamp, now) ==
    LET r == validate_timestamp(timestamp, now)
    IN  /\ ret' = IF "raised" \in DOMAIN r
                  THEN [op |-> "validate_timestamp", args |-> timestamp, now |-> now,
                        raised |-> r.raised]
                  ELSE [op |-> "validate_timestamp", args |-> timestamp, now |-> now,
                        value |-> r]
        /\ UNCHANGED <<storeVars, ghostVars, threadVars>>

\* add_log / add_metric with a record the caller built, each record once
AddHeldLog(log) ==
    /\ log.id \notin DOMAIN fate.logs
    /\ add_log(log)
    /\ ret' = add_log_result(log)
    /\ UNCHANGED <<created, batch, threadVars>>

AddHeldMetric(metric) ==
    /\ metric.id \notin DOMAIN fate.metrics
    /\ add_metric(metric)
    /\ ret' = add_metric_result(metric)
    /\ UNCHANGED <<created, batch, threadVars>>

ZonedLogs ==
    {LogEntry(1, 0, "a", "INFO"), WithZone(LogEntry(2, 0, "b", "INFO")),
     LogEntry(3, MaxTime, "a", "INFO"), LogEntry(4, MaxTime, "b", "INFO")}

ZonedMetrics ==
    {MetricDataPoint(1, 0, "a", "cpu"), WithZone(MetricDataPoint(2, MaxTime, "b", "cpu"))}

ZonedTimestamps ==
    {Datetime(at, aware) : at \in 0..(IngestNow + minutes_5 + 1), aware \in BOOLEAN}

NextZoned ==
    \/ \E timestamp \in ZonedTimestamps, now \in IngestNows :
          ValidateTimestamp(timestamp, now)
    \/ \E log \in ZonedLogs : AddHeldLog(log)
    \/ \E metric \in ZonedMetrics : AddHeldMetric(metric)
    \/ \E now \in Nows : CleanupZoned(now)

SpecZoned == Init /\ [][NextZoned]_vars

\* C35: an aware timestamp within the accepted range passes validate_timestamp,
\* and cleanup_old_data completes without raising on a store that holds
\* records with aware timestamps
ZonesHandled ==
    /\ (/\ ret.op = "validate_timestamp"
        /\ ret.args.aware
        /\ ret.now - days_7 <= ret.args.at
        /\ ret.args.at <= ret.now + minutes_5)
          => ("value" \in DOMAIN ret /\ ret.value.valid)
    /\ ret.op = "cleanup_old_data" => "raised" \notin DOMAIN ret

\* cleanup_old_data has raised after it swept the logs of one service: the
\* logs of the other service and the metrics still hold records of timestamp 0
HalfSwept ==
    /\ ret.op = "cleanup_old_data"
    /\ "raised" \in DOMAIN ret
    /\ \E id \in DOMAIN fate.logs : fate.logs[id] = "swept"
    /\ \E i \in DOMAIN metrics : \E j \in DOMAIN metrics[i][2] :
          metrics[i][2][j].timestamp = 0

\* ---------------------------------------------------------------------------
\* Callers waiting for the lock
\* ---------------------------------------------------------------------------

\* two records the callers hold
LiveLogs == {LogEntry(i, 0, "a", "ERROR") : i \in 1..2}

\* the calls of add_log made so far, those waiting for the lock included
LiveCalls == Len(serial) + Cardinality({t \in Threads : frames[t].pc = "acquire"})

\* a thread calls add_log with a record it holds; the same record may be
\* passed again
CallAddHeldLog(t, log) ==
    /\ frames[t] = Idle
    /\ LiveCalls < max_logs_per_service + 2
    /\ frames' = [frames EXCEPT ![t] = [pc |-> "acquire", op |-> "add_log",
                                        rec |-> log]]
    /\ UNCHANGED <<storeVars, ghostVars, ret, lock, serial>>

\* a thread calls get_error_logs_in_window, which calls get_logs_in_window
CallGetErrorLogs(t) ==
    /\ frames[t] = Idle
    /\ frames' = [frames EXCEPT ![t] = [pc |-> "enter",
                                        op |-> "get_error_logs_in_window"]]
    /\ UNCHANGED <<storeVars, ghostVars, ret, lock, serial>>

\* the `with self._lock:` block of get_logs_in_window and the return
get_error_logs_locked(t) ==
    /\ At(t, "get_error_logs_in_window", "enter")
    /\ CanEnter(t)
    /\ ret' = [op |-> "get_error_logs_in_window",
               args |-> [start |-> 0, end |-> MaxTime, services |-> None],
               value |-> get_error_logs_in_window(0, MaxTime, None)]
    /\ frames' = [frames EXCEPT ![t] = Idle]
    /\ UNCHANGED <<storeVars, ghostVars, lock, serial>>

\* the statements of a call that wait for the lock
Enter(t) == Acquire(t) \/ get_error_logs_locked(t)

\* the statements of add_log inside its `with` block
Run(t) ==
    \/ add_log_append(t)
    \/ add_log_index(t)
    \/ add_log_register(t)
    \/ add_log_count(t)
    \/ add_log_count_store(t)
    \/ add_log_limit(t)
    \/ add_log_unindex(t)
    \/ add_log_return(t)

NextLive ==
    \/ \E t \in Threads, log \in LiveLogs : CallAddHeldLog(t, log)
    \/ \E t \in Threads : CallGetErrorLogs(t)
    \/ \E t \in Threads : Acquire(t)
    \/ \E t \in Threads : get_error_logs_locked(t)
    \/ \E t \in Threads : add_log_append(t)
    \/ \E t \in Threads : add_log_index(t)
    \/ \E t \in Threads : add_log_register(t)
    \/ \E t \in Threads : add_log_count(t)
    \/ \E t \in Threads : add_log_count_store(t)
    \/ \E t \in Threads : add_log_limit(t)
    \/ \E t \in Threads : add_log_unindex(t)
    \/ \E t \in Threads : add_log_return(t)

SpecLive == Init /\ [][NextLive]_vars

\* fair scheduling: a thread inside a call goes on running, and a thread that
\* waits for the lock gets it if the lock is free again and again
FairSpecLive ==
    /\ SpecLive
    /\ \A t \in Threads : WF_vars(Run(t)) /\ SF_vars(Enter(t))

RegistryGrows ==
    [][ret'.op # "clear" =>
          /\ get_services \subseteq get_services'
          /\ get_stats'.services_count >= get_stats.services_count]_vars

\* add_trace has just replaced the only trace with a span of service b by a
\* trace without spans: b is listed and nothing of b is stored
RegistryGrowsWitness ==
    /\ ret.op = "add_trace"
    /\ "b" \in get_services
    /\ "b" \notin StoredNames
    /\ traces # <<>>
    /\ \A id \in DOMAIN fate.traces : fate.traces[id] \notin {"cleared", "swept", "evicted"}

\* ---------------------------------------------------------------------------
\* Queries and lookups as readers of the store
\* ---------------------------------------------------------------------------

\* (d[k] on a defaultdict(list): a key that is missing is inserted with an
\* empty list)
DictIndexed(d, k) == IF DictHas(d, k) THEN d ELSE Append(d, <<k, <<>>>>)

\* the defaultdict d after d.get(k, []): get inserts nothing
DictGot(d, k) == d

\* the defaultdict after the gets of a list of keys
RECURSIVE DictGotAll(_, _)
DictGotAll(d, keys) ==
    IF keys = <<>> THEN d ELSE DictGotAll(DictGot(d, Head(keys)), Tail(keys))

\* `services or list(d.keys())`
TargetServices(service_list, d) ==
    IF Truthy(service_list) THEN service_list.list ELSE DictKeys(d)

\* get_metric_names_for_service: list(names) of a set, in no order that the
\* code fixes
get_metric_names_for_service(service_name) ==
    {m.metric_name : m \in Range(DictGet(metrics, service_name, <<>>))}

\* the loops of get_metrics_in_window over target_services and their lists
RECURSIVE MetricsOf(_, _, _, _)
MetricsOf(target_services, start, end, metric_names) ==
    IF target_services = <<>> THEN <<>>
    ELSE SelectSeq(DictGet(metrics, Head(target_services), <<>>),
                   LAMBDA metric :
                       /\ InWindow(start, metric.timestamp, end)
                       /\ ~(Truthy(metric_names)
                               /\ metric.metric_name \notin Range(metric_names.list)))
         \o MetricsOf(Tail(target_services), start, end, metric_names)

\* get_metrics_in_window
get_metrics_in_window(start, end, service_list, metric_names) ==
    SortedByTimestamp(MetricsOf(TargetServices(service_list, metrics), start, end,
                                metric_names))

\* a query returns value after it looked up log_keys in _logs and metric_keys
\* in _metrics with .get; the plain dicts _logs_by_id, _metrics_by_id and
\* _traces are read with .get and .values(), _services and _stats are read
Answer(op, args, value, log_keys, metric_keys) ==
    /\ ret' = [op |-> op, args |-> args, value |-> value]
    /\ logs' = DictGotAll(logs, log_keys)
    /\ metrics' = DictGotAll(metrics, metric_keys)
    /\ UNCHANGED <<traces, logs_by_id, metrics_by_id, services, stats, ghostVars,
                   threadVars>>

ReadLogById(log_id) ==
    Answer("get_log_by_id", log_id, get_log_by_id(log_id), <<>>, <<>>)

ReadMetricById(metric_id) ==
    Answer("get_metric_by_id", metric_id, get_metric_by_id(metric_id), <<>>, <<>>)

ReadTraceById(trace_id) ==
    Answer("get_trace_by_id", trace_id, get_trace_by_id(trace_id), <<>>, <<>>)

ReadLogsInWindow(start, end, service_list, levels) ==
    Answer("get_logs_in_window",
           [start |-> start, end |-> end, services |-> service_list, levels |-> levels],
           get_logs_in_window(start, end, service_list, levels),
           TargetServices(service_list, logs), <<>>)

ReadErrorLogsInWindow(start, end, service_list) ==
    Answer("get_error_logs_in_window",
           [start |-> start, end |-> end, services |-> service_list],
           get_error_logs_in_window(start, end, service_list),
           TargetServices(service_list, logs), <<>>)

ReadMetricSeries(service_name, metric_name, start, end) ==
    Answer("get_metric_series",
           [service_name |-> service_name, metric_name |-> metric_name,
            start |-> start, end |-> end],
           get_metric_series(service_name, metric_name, start, end),
           <<>>, <<service_name>>)

ReadMetricNames(service_name) ==
    Answer("get_metric_names_for_service", service_name,
           get_metric_names_for_service(service_name), <<>>, <<service_name>>)

ReadMetricsInWindow(start, end, service_list, metric_names) ==
    Answer("get_metrics_in_window",
           [start |-> start, end |-> end, services |-> service_list,
            metric_names |-> metric_names],
           get_metrics_in_window(start, end, service_list, metric_names),
           <<>>, TargetServices(service_list, metrics))

ReadTracesForService(service_name, start, end) ==
    Answer("get_traces_for_service",
           [service_name |-> service_name, start |-> start, end |-> end],
           get_traces_for_service(service_name, start, end), <<>>, <<>>)

ReadErrorTracesInWindow(start, end, service_list) ==
    Answer("get_error_traces_in_window",
           [start |-> start, end |-> end, services |-> service_list],
           get_error_traces_in_window(start, end, service_list), <<>>, <<>>)

ReadServices == Answer("get_services", <<>>, get_services, <<>>, <<>>)

ReadStats == Answer("get_stats", <<>>, get_stats, <<>>, <<>>)

\* the queries are asked about the stored services and about one that was
\* never seen, by name and in lists
Unseen == "c"

ReadNames == Services \cup {Unseen}

ReadLists == {None, Given(<<>>), Given(<<Unseen>>), Given(<<"a", Unseen>>)}

ReadIds == 1..2

ReadTraceInputs ==
    {Trace("A", <<Span("a", 0, 0, None, "ERROR", 0)>>), Trace("B", <<SpanAt("b", 0)>>)}

NextReads ==
    \/ \E in \in FrameLogInputs : Made < MaxAdds /\ AddLog(in)
    \/ \E in \in FrameMetricInputs : Made < MaxAdds /\ AddMetric(in)
    \/ \E trace \in ReadTraceInputs : Made < MaxAdds /\ AddTrace(trace)
    \/ \E id \in ReadIds : ReadLogById(id)
    \/ \E id \in ReadIds : ReadMetricById(id)
    \/ \E id \in {"A", Unseen} : ReadTraceById(id)
    \/ \E svcs \in ReadLists : ReadLogsInWindow(0, MaxTime, svcs, None)
    \/ \E svcs \in ReadLists : ReadErrorLogsInWindow(0, MaxTime, svcs)
    \/ \E s \in ReadNames : ReadMetricSeries(s, "cpu", 0, MaxTime)
    \/ \E s \in ReadNames : ReadMetricNames(s)
    \/ \E svcs \in ReadLists : ReadMetricsInWindow(0, MaxTime, svcs, None)
    \/ \E s \in ReadNames : ReadTracesForService(s, 0, MaxTime)
    \/ \E svcs \in ReadLists : ReadErrorTracesInWindow(0, MaxTime, svcs)
    \/ ReadServices
    \/ ReadStats

SpecReads == Init /\ [][NextReads]_vars

ReadOps ==
    {"get_log_by_id", "get_metric_by_id", "get_trace_by_id", "get_logs_in_window",
     "get_error_logs_in_window", "get_metric_series", "get_metric_names_for_service",
     "get_metrics_in_window", "get_traces_for_service", "get_error_traces_in_window",
     "get_services", "get_stats"}

\* C38: a query or lookup leaves the lists, the indexes, the traces, the
\* registry and the counters as they were, also when it names a service that
\* was never seen: no empty list and no registry entry appears for it
ReadsOnly ==
    [][ret'.op \in ReadOps =>
          /\ logs' = logs /\ metrics' = metrics /\ traces' = traces
          /\ logs_by_id' = logs_by_id /\ metrics_by_id' = metrics_by_id
          /\ services' = services /\ stats' = stats
          /\ ~DictHas(logs', Unseen) /\ ~DictHas(metrics', Unseen)
          /\ Unseen \notin services']_vars

\* get_metrics_in_window was asked for a stored service and the one never
\* seen, on a store that holds logs, metrics and a trace
ReadsOnlyWitness ==
    /\ ret.op = "get_metrics_in_window"
    /\ ret.args.services = Given(<<"a", Unseen>>)
    /\ ret.value # <<>>
    /\ logs # <<>>
    /\ traces # <<>>

\* ---------------------------------------------------------------------------
\* Window queries with a service named more than once
\* ---------------------------------------------------------------------------

RepeatLists ==
    {None, Given(<<>>), Given(<<"a">>), Given(<<"a", "b">>), Given(<<"a", "a">>),
     Given(<<"b", "a", "b">>)}

RepeatLogInputs == [timestamp : Times, service_name : Services, level : {"INFO"}]

RepeatMetricInputs == [timestamp : Times, service_name : Services, metric_name : {"cpu"}]

NextRepeats ==
    \/ \E in \in RepeatLogInputs : Made < MaxAdds /\ AddLog(in)
    \/ \E in \in RepeatMetricInputs : Made < MaxAdds /\ AddMetric(in)
    \/ \E svcs \in RepeatLists : ReadLogsInWindow(0, MaxTime, svcs, None)
    \/ \E svcs \in RepeatLists : ReadMetricsInWindow(0, MaxTime, svcs, None)

SpecRepeats == Init /\ [][NextRepeats]_vars

\* C39: the result of get_logs_in_window and of get_metrics_in_window holds no
\* record twice, whatever the services argument is: None, an empty list, or a
\* list that names a service more than once
NoDuplicates ==
    ret.op \in {"get_logs_in_window", "get_metrics_in_window"} =>
        \A i, j \in DOMAIN ret.value : ret.value[i].id = ret.value[j].id => i = j

\* the same for the requests whose list names no service twice
NoDuplicatesOfDistinct ==
    (/\ ret.op \in {"get_logs_in_window", "get_metrics_in_window"}
     /\ Truthy(ret.args.services) =>
           \A i, j \in DOMAIN ret.args.services.list :
               ret.args.services.list[i] = ret.args.services.list[j] => i = j)
        => \A i, j \in DOMAIN ret.value : ret.value[i].id = ret.value[j].id => i = j

\* ---------------------------------------------------------------------------
\* The store after a record was added twice
\* ---------------------------------------------------------------------------

\* C40: also after a record was added again while it was stored, the indexes
\* resolve the id of every record of the lists, and no add raises
StoreUsable ==
    /\ StoredIds(logs) \subseteq DOMAIN logs_by_id
    /\ StoredIds(metrics) \subseteq DOMAIN metrics_by_id
    /\ ret.op \in {"add_logs_batch", "add_metrics_batch"} => "raised" \notin DOMAIN ret

\* an add has raised KeyError when it evicted the second copy of a record
RaisedOnEviction ==
    /\ ret.op \in {"add_logs_batch", "add_metrics_batch"}
    /\ "raised" \in DOMAIN ret

====
